---- MODULE Spec2Model ----
(***************************************************************************)
(* Job supervisor of the dashboard server (src/server.js, second copy of   *)
(* the file, lines 1674-3416): the active-build registry, the per-job log  *)
(* stream, the child-process events, the start / kill / list handlers and  *)
(* the status heuristics over the log text.                                *)
(*                                                                         *)
(* Time is the millisecond clock Date.now(), counted from a second-aligned *)
(* origin.  A log name `<stamp>.<job>.log` is the record [stamp, job].     *)
(* A text is a run-length coded string: a sequence of runs [ch, n].        *)
(***************************************************************************)
EXTENDS Integers, Sequences, FiniteSets, TLC

\* ---------------------------------------------------------------- bounds
MaxStarts == 2      \* start requests that reach the spawn
MaxTicks == 1       \* clock advances
MaxChunks == 1      \* output chunks the children emit
MaxKills == 1       \* kill requests that find an entry to signal
MaxFaults == 1      \* spawns that fail

JobIds == {"autotune"}
TickSteps == {500, 120000}
ExitCodes == {0, 1}
Ids == 1..MaxStarts

\* ------------------------------------------------------------------ text
Str(chars) == [i \in 1..Len(chars) |-> [ch |-> chars[i], n |-> 1]]
Fill(c, k) == IF k > 0 THEN <<[ch |-> c, n |-> k]>> ELSE <<>>

\* String.prototype.length
RECURSIVE RunsLen(_)
RunsLen(t) == IF t = <<>> THEN 0 ELSE Head(t).n + RunsLen(Tail(t))
TextLen(t) == IF \A i \in 1..Len(t) : t[i].n = 1 THEN Len(t) ELSE RunsLen(t)

RECURSIVE Concat(_)
Concat(texts) == IF texts = <<>> THEN <<>> ELSE Head(texts) \o Concat(Tail(texts))

\* String.prototype.toLowerCase, on the letters that occur
UpperCase == <<"A", "B", "C", "D", "E", "I", "K", "L", "N", "O", "P", "R", "S", "T", "X">>
LowerCase == <<"a", "b", "c", "d", "e", "i", "k", "l", "n", "o", "p", "r", "s", "t", "x">>
OtherChars == {"h", "w", " ", ":", "-", ".", "0", "1", "2", "\n"}
Chars == {UpperCase[i] : i \in 1..Len(UpperCase)} \cup {LowerCase[i] : i \in 1..Len(LowerCase)}
           \cup OtherChars
ToLowerChar == [c \in Chars |->
  IF \E i \in 1..Len(UpperCase) : UpperCase[i] = c
  THEN LowerCase[CHOOSE i \in 1..Len(UpperCase) : UpperCase[i] = c]
  ELSE c]
toLowerCase(t) == [i \in 1..Len(t) |-> [t[i] EXCEPT !.ch = ToLowerChar[@]]]

\* the characters of a text, runs longer than k cut to k (a word of at most k
\* characters occurs in the one exactly when it occurs in the other)
RECURSIVE ExpandRuns(_, _)
ExpandRuns(t, k) ==
  IF t = <<>> THEN <<>>
  ELSE [i \in 1..(IF Head(t).n > k THEN k ELSE Head(t).n) |-> Head(t).ch] \o ExpandRuns(Tail(t), k)
Expand(t, k) ==
  IF \A i \in 1..Len(t) : t[i].n = 1 THEN [i \in 1..Len(t) |-> t[i].ch] ELSE ExpandRuns(t, k)

\* String.prototype.includes(word), word a sequence of characters
includes(t, word) ==
  LET s == Expand(t, Len(word))
  IN \E i \in 1..(Len(s) - Len(word) + 1) : \A j \in 1..Len(word) : s[i + j - 1] = word[j]

\* String.prototype.slice(-k): the last k characters
RECURSIVE SliceLast(_, _)
SliceLast(t, k) ==
  IF t = <<>> \/ k <= 0 THEN <<>>
  ELSE LET last == t[Len(t)]
           front == SubSeq(t, 1, Len(t) - 1)
       IN IF last.n >= k THEN <<[last EXCEPT !.n = k]>>
          ELSE SliceLast(front, k - last.n) \o <<last>>

\* the lines the server writes (the timestamp prefix, job and command left out)
TxtStart == Str(<<"S", "T", "A", "R", "T", "\n">>)
TxtExit0 == Str(<<"E", "X", "I", "T", " ", "0", "\n">>)
TxtExit1 == Str(<<"E", "X", "I", "T", " ", "1", "\n">>)
TxtExitNeg == Str(<<"E", "X", "I", "T", " ", "-", "2", "\n">>)
TxtErrorSpawn == Str(<<"E", "R", "R", "O", "R", " ", "s", "p", "a", "w", "n", "\n">>)
TxtErrorChild == Str(<<"E", "R", "R", "O", "R", " ", "c", "h", "i", "l", "d", "\n">>)
TxtCancel == Str(<<"C", "A", "N", "C", "E", "L", "\n">>)
\* what a child prints
TxtOk == Str(<<"o", "k", "\n">>)
TxtTraceback == Str(<<"T", "r", "a", "c", "e", "b", "a", "c", "k", "\n">>)
ChunkTexts == {TxtOk, TxtTraceback}

\* ------------------------------------------------------- pure functions
\* formatStamp: the UTC second of a date (YYYYMMDD_HHMMSS is one-to-one with it)
formatStamp(date) == date \div 1000

WordTraceback == <<"t", "r", "a", "c", "e", "b", "a", "c", "k">>
WordError == <<"e", "r", "r", "o", "r", ":">>
WordException == <<"e", "x", "c", "e", "p", "t", "i", "o", "n">>

FRESH_MS == 120000

\* detectLogStatus with the window's bound included (<= for <)
detectLogStatus_WindowInclusive(content, mtimeMs, nowMs) ==
  LET lowered == toLowerCase(content)
  IN IF includes(lowered, WordTraceback) \/ includes(lowered, WordError)
        \/ includes(lowered, WordException)
     THEN "failed"
     ELSE IF nowMs - mtimeMs <= FRESH_MS THEN "running" ELSE "success"

\* detectLogStatus with the freshness test ahead of the marker scan
detectLogStatus_FreshFirst(content, mtimeMs, nowMs) ==
  LET lowered == toLowerCase(content)
  IN IF nowMs - mtimeMs < FRESH_MS THEN "running"
     ELSE IF includes(lowered, WordTraceback) \/ includes(lowered, WordError)
             \/ includes(lowered, WordException)
          THEN "failed" ELSE "success"

\* detectLogStatus(content, mtimeMs) with Date.now() = nowMs
detectLogStatus(content, mtimeMs, nowMs) ==
  LET lowered == toLowerCase(content)
  IN IF includes(lowered, WordTraceback) \/ includes(lowered, WordError)
        \/ includes(lowered, WordException)
     THEN "failed"
     ELSE IF nowMs - mtimeMs < FRESH_MS THEN "running" ELSE "success"

\* parseBuildLog, the status of a log without an active entry: the content is
\* cut to its last 500,000 characters before the markers are looked for
MAX_CONTENT == 500000
inferStatus(content, mtimeMs, nowMs) ==
  detectLogStatus(IF TextLen(content) > MAX_CONTENT THEN SliceLast(content, MAX_CONTENT) ELSE content,
                  mtimeMs, nowMs)

\* ------------------------------------------------------------- state
VARIABLES
  now,           \* Date.now()
  up,            \* the server process is running
  activeBuilds,  \* the registry: log name -> id of the entry {child, meta}
  child,         \* per start attempt: the child process and its entry's meta
  stream,        \* per start attempt: the log write stream
  files,         \* the log directory: log name -> [lines, mtime]
  used,          \* what the environment has done so far, for the bounds
  call           \* a pure function's arguments and result

vars == <<now, up, activeBuilds, child, stream, files, used, call>>

NoCall == [fn |-> "none"]
NoLog == [stamp |-> 0, job |-> "autotune"]
\* st: none (unused), nospawn, running, exited (the process has ended, 'close'
\*     is due), errored (the spawn failed, 'close' is due), closed ('close'
\*     handled), orphan (alive, its server gone), lost (ended, its server gone)
\* http: the status of the start request's response; killed: child.killed;
\* sig: the signal sent; killReq: meta.kill_requested_at is set; kreq: kill
\* handlers suspended holding this entry
NoChild == [st |-> "none", log |-> NoLog, http |-> 0, killed |-> FALSE, sig |-> "none",
            killReq |-> FALSE, kreq |-> 0]
\* fd: none, opening, open, closed (destroyed)
NoStream == [fd |-> "none", queue |-> <<>>, ended |-> FALSE]
DeadStream == [fd |-> "closed", queue |-> <<>>, ended |-> TRUE]

InitSupervisor ==
  /\ now = 0
  /\ up = TRUE
  /\ activeBuilds = <<>>
  /\ child = [p \in Ids |-> NoChild]
  /\ stream = [p \in Ids |-> NoStream]
  /\ files = <<>>
  /\ used = [ticks |-> 0, chunks |-> 0, kills |-> 0, faults |-> 0]

Init == InitSupervisor /\ call = NoCall

\* a map with key k set to v (Map.prototype.set) and with k removed (delete)
MapSet(m, k, v) == [x \in DOMAIN m \cup {k} |-> IF x = k THEN v ELSE m[x]]
MapDelete(m, k) == [x \in DOMAIN m \ {k} |-> m[x]]

\* logStream.write(text) / logStream.end() on a stream that is not ended
StreamWrite(s, text) == [s EXCEPT !.queue = Append(@, text)]
StreamEnd(s) == [s EXCEPT !.ended = TRUE]

\* fs: lines appended to a file (created when absent), mtime set to the clock
AppendLines(fs, name, texts, t) ==
  MapSet(fs, name, [lines |-> (IF name \in DOMAIN fs THEN fs[name].lines ELSE <<>>) \o texts,
                    mtime |-> t])

\* the server process dies: the registry, the streams and the suspended handlers
\* are lost; children that are alive go on without a supervisor
ServerDown ==
  /\ up' = FALSE
  /\ activeBuilds' = <<>>
  /\ stream' = [p \in Ids |-> IF stream[p].fd = "none" THEN NoStream ELSE DeadStream]
  /\ child' = [p \in Ids |->
       [child[p] EXCEPT !.kreq = 0,
                        !.st = CASE @ = "running" -> "orphan"
                                 [] @ \in {"exited", "errored"} -> "lost"
                                 [] OTHER -> @]]

\* the next unused start attempt
NextId == CHOOSE p \in Ids : child[p].st = "none" /\ \A q \in Ids : q < p => child[q].st # "none"
CanStart == \E p \in Ids : child[p].st = "none"

\* the clock moves
Tick ==
  /\ used.ticks < MaxTicks
  /\ \E d \in TickSteps : now' = now + d
  /\ used' = [used EXCEPT !.ticks = @ + 1]
  /\ UNCHANGED <<up, activeBuilds, child, stream, files, call>>

\* POST /api/builds/start once the job is known, enabled and rendered.
\* outcome "ok": the child is spawned; "throw": spawn throws; "enoent": spawn
\* reports its failure as an 'error' event on the next tick, which runs the
\* error handler before any other handler.
Start(jobId, outcome) ==
  /\ up /\ CanStart
  /\ outcome # "ok" => used.faults < MaxFaults
  /\ used' = [used EXCEPT !.faults = IF outcome = "ok" THEN @ ELSE @ + 1]
  /\ LET p == NextId
         logName == [stamp |-> formatStamp(now), job |-> jobId]
         s0 == StreamWrite([NoStream EXCEPT !.fd = "opening"], TxtStart)
     IN CASE outcome = "ok" ->
               /\ stream' = [stream EXCEPT ![p] = s0]
               /\ child' = [child EXCEPT ![p] =
                     [NoChild EXCEPT !.st = "running", !.log = logName, !.http = 200]]
               /\ activeBuilds' = MapSet(activeBuilds, logName, p)
          [] outcome = "throw" ->
               /\ stream' = [stream EXCEPT ![p] = StreamEnd(StreamWrite(s0, TxtErrorSpawn))]
               /\ child' = [child EXCEPT ![p] =
                     [NoChild EXCEPT !.st = "nospawn", !.log = logName, !.http = 500]]
               /\ activeBuilds' = activeBuilds
          [] outcome = "enoent" ->
               /\ stream' = [stream EXCEPT ![p] = StreamEnd(StreamWrite(s0, TxtErrorChild))]
               /\ child' = [child EXCEPT ![p] =
                     [NoChild EXCEPT !.st = "errored", !.log = logName, !.http = 200]]
               /\ activeBuilds' = MapDelete(MapSet(activeBuilds, logName, p), logName)
  /\ UNCHANGED <<now, up, files, call>>

\* the write stream opens its file if it has not yet and writes everything it
\* has buffered (one writev); an ended stream then closes the file (autoDestroy)
StreamFlush(p) ==
  /\ up /\ stream[p].fd \in {"opening", "open"} /\ stream[p].queue # <<>>
  /\ stream' = [stream EXCEPT ![p].queue = <<>>,
                              ![p].fd = IF stream[p].ended THEN "closed" ELSE "open"]
  /\ files' = AppendLines(files, child[p].log, stream[p].queue, now)
  /\ UNCHANGED <<now, up, activeBuilds, child, used, call>>

\* child.stdout / child.stderr 'data': the chunk goes to the log stream
ChildOutput(p, text) ==
  /\ up /\ child[p].st \in {"running", "exited"} /\ used.chunks < MaxChunks
  /\ used' = [used EXCEPT !.chunks = @ + 1]
  /\ stream' = [stream EXCEPT ![p] = StreamWrite(@, text)]
  /\ UNCHANGED <<now, up, activeBuilds, child, files, call>>

\* the child process ends: node drops its handle; 'close' follows once the
\* pipes are drained
ProcExit(p) ==
  /\ up /\ child[p].st = "running"
  /\ child' = [child EXCEPT ![p].st = "exited"]
  /\ UNCHANGED <<now, up, activeBuilds, stream, files, used, call>>

ExitLine(code) == CASE code = 0 -> TxtExit0 [] code = 1 -> TxtExit1 [] OTHER -> TxtExitNeg

\* child 'close' with the exit code: write the EXIT line, end the stream,
\* delete the registry key.
\* A write on a stream that is ended but not yet destroyed raises
\* ERR_STREAM_WRITE_AFTER_END as an unhandled 'error': the server dies.  On a
\* destroyed stream the write is dropped.
ChildClose(p, code) ==
  /\ up /\ child[p].st \in {"exited", "errored"}
  /\ child[p].st = "errored" <=> code = -2
  /\ IF stream[p].ended /\ stream[p].fd # "closed"
     THEN /\ ServerDown
          /\ UNCHANGED <<now, files, used, call>>
     ELSE /\ stream' = [stream EXCEPT ![p] =
                 IF stream[p].ended THEN @ ELSE StreamEnd(StreamWrite(@, ExitLine(code)))]
          /\ child' = [child EXCEPT ![p].st = "closed"]
          /\ activeBuilds' = MapDelete(activeBuilds, child[p].log)
          /\ UNCHANGED <<now, up, files, used, call>>

\* child.kill(signal): FALSE when the handle is gone (the process has ended),
\* else the signal is sent and child.killed is set
KillSent(c) == c.st = "running"
ChildKill(c, signal) == IF KillSent(c) THEN [c EXCEPT !.killed = TRUE, !.sig = signal] ELSE c

\* a kill request whose body has no logfile string
NoLogfile == [stamp |-> -1, job |-> ""]

\* the kill handler's guard: no entry, or entry.child.killed
KillRejects(logfile) ==
  logfile \notin DOMAIN activeBuilds \/ child[activeBuilds[logfile]].killed

\* the status of the response the kill handler sends before it awaits
\* anything: 400 without a logfile, 404 when the guard rejects; 0 when it
\* goes on to the append
KillEarlyStatus(logfile) ==
  IF logfile = NoLogfile THEN 400 ELSE IF KillRejects(logfile) THEN 404 ELSE 0

\* the kill handler, were it to append the CANCEL line ahead of its guard
KillHandler_CancelFirst(logfile) ==
  /\ up
  /\ IF KillEarlyStatus(logfile) # 0
     THEN UNCHANGED <<child, used>>
     ELSE /\ used.kills < MaxKills
          /\ used' = [used EXCEPT !.kills = @ + 1]
          /\ child' = [child EXCEPT ![activeBuilds[logfile]].kreq = @ + 1]
  /\ files' = IF logfile = NoLogfile THEN files
              ELSE AppendLines(files, logfile, <<TxtCancel>>, now)
  /\ UNCHANGED <<now, up, activeBuilds, stream>>

\* POST /api/builds/kill up to the await of fsp.appendFile: the early
\* responses change nothing, else the handler is suspended holding the entry
KillHandler(logfile) ==
  /\ up
  /\ IF KillEarlyStatus(logfile) # 0
     THEN UNCHANGED <<child, used>>
     ELSE /\ used.kills < MaxKills
          /\ used' = [used EXCEPT !.kills = @ + 1]
          /\ child' = [child EXCEPT ![activeBuilds[logfile]].kreq = @ + 1]
  /\ UNCHANGED <<now, up, activeBuilds, stream, files>>

KillBegin(logfile) == KillHandler(logfile) /\ UNCHANGED call

\* the same step with the request and its early response kept in call
KillRequest(logfile) ==
  /\ KillHandler(logfile)
  /\ call' = [fn |-> "kill", logfile |-> logfile, status |-> KillEarlyStatus(logfile)]

\* the second half of the kill handler, were it to drop the entry itself
KillResume_Removes(p, appended) ==
  /\ up /\ child[p].kreq > 0
  /\ files' = IF appended THEN AppendLines(files, child[p].log, <<TxtCancel>>, now) ELSE files
  /\ LET c1 == [child[p] EXCEPT !.kreq = @ - 1, !.killReq = TRUE]
         c2 == ChildKill(c1, "SIGTERM")
         c3 == IF KillSent(c1) THEN c2 ELSE ChildKill(c2, "SIGKILL")
     IN child' = [child EXCEPT ![p] = c3]
  /\ activeBuilds' = MapDelete(activeBuilds, child[p].log)
  /\ UNCHANGED <<now, up, stream, used, call>>

\* the kill handler resumes after appendFile (appended tells whether the
\* CANCEL line was written): kill_requested_at, SIGTERM, SIGKILL when SIGTERM
\* was not sent, respond 200 ok
KillResume(p, appended) ==
  /\ up /\ child[p].kreq > 0
  /\ files' = IF appended THEN AppendLines(files, child[p].log, <<TxtCancel>>, now) ELSE files
  /\ LET c1 == [child[p] EXCEPT !.kreq = @ - 1, !.killReq = TRUE]
         c2 == ChildKill(c1, "SIGTERM")
         c3 == IF KillSent(c1) THEN c2 ELSE ChildKill(c2, "SIGKILL")
     IN child' = [child EXCEPT ![p] = c3]
  /\ UNCHANGED <<now, up, activeBuilds, stream, used, call>>

\* parseBuildLog without the active entry's override
parseBuildLog_NoOverride(name) ==
  [logfile |-> name, job |-> name.job,
   status |-> inferStatus(Concat(files[name].lines), files[name].mtime, now),
   active |-> FALSE, kill_requested_at |-> FALSE]

\* parseBuildLog with the override leaving the cancellation timestamp out
parseBuildLog_NoKillStamp(name) ==
  LET status == inferStatus(Concat(files[name].lines), files[name].mtime, now)
      info == [logfile |-> name, job |-> name.job, status |-> status,
               active |-> FALSE, kill_requested_at |-> FALSE]
  IN IF name \in DOMAIN activeBuilds
     THEN [info EXCEPT !.status = "running", !.active = TRUE]
     ELSE info

\* parseBuildLog for one log file of the directory
parseBuildLog(name) ==
  LET status == inferStatus(Concat(files[name].lines), files[name].mtime, now)
      info == [logfile |-> name, job |-> name.job, status |-> status,
               active |-> FALSE, kill_requested_at |-> FALSE]
  IN IF name \in DOMAIN activeBuilds
     THEN [info EXCEPT !.status = "running", !.active = TRUE,
                       !.kill_requested_at = child[activeBuilds[name]].killReq]
     ELSE info

\* the builds of GET /api/builds: one per log file
listBuilds == [name \in DOMAIN files |-> parseBuildLog(name)]

\* GET /api/builds: responds with listBuilds, changes nothing
GetBuilds ==
  /\ up
  /\ UNCHANGED vars

\* the server process is started again: an empty registry
ServerBoot ==
  /\ ~up
  /\ up' = TRUE
  /\ UNCHANGED <<now, activeBuilds, child, stream, files, used, call>>

\* log names a client may name in a kill request
KillInputs ==
  DOMAIN files \cup DOMAIN activeBuilds \cup {[stamp |-> 0, job |-> "nosuch"], NoLogfile}

Next ==
  \/ Tick
  \/ \E j \in JobIds, o \in {"ok", "throw", "enoent"} : Start(j, o)
  \/ \E p \in Ids : StreamFlush(p)
  \/ \E p \in Ids, t \in ChunkTexts : ChildOutput(p, t)
  \/ \E p \in Ids : ProcExit(p)
  \/ \E p \in Ids, c \in ExitCodes \cup {-2} : ChildClose(p, c)
  \/ \E l \in KillInputs : KillBegin(l)
  \/ \E p \in Ids, a \in BOOLEAN : KillResume(p, a)
  \/ GetBuilds
  \/ ServerBoot

Spec == Init /\ [][Next]_vars

\* the event loop delivers a pending 'close' event while the server runs
SpecLive == Spec /\ \A p \in Ids : WF_vars(\E code \in ExitCodes \cup {-2} : ChildClose(p, code))

\* the supervisor with each kill request and its early response on record
NextKill ==
  \/ Tick
  \/ \E j \in JobIds, o \in {"ok", "throw", "enoent"} : Start(j, o)
  \/ \E p \in Ids : StreamFlush(p)
  \/ \E p \in Ids, t \in ChunkTexts : ChildOutput(p, t)
  \/ \E p \in Ids : ProcExit(p)
  \/ \E p \in Ids, c \in ExitCodes \cup {-2} : ChildClose(p, c)
  \/ \E l \in KillInputs : KillRequest(l)
  \/ \E p \in Ids, a \in BOOLEAN : KillResume(p, a)
  \/ ServerBoot
SpecKill == Init /\ [][NextKill]_vars

\* ------------------------------------------- status inference on its own
\* log texts: a first piece, a run of filler characters, a last piece
TxtUpperTraceback == Str(<<"T", "R", "A", "C", "E", "B", "A", "C", "K", "\n">>)
TxtErrorColon == Str(<<"E", "r", "r", "o", "r", ":", " ", "x", "\n">>)
TxtLowerError == Str(<<"e", "r", "r", "o", "r", ":", " ", "x", "\n">>)
TxtException == Str(<<"E", "x", "c", "e", "p", "t", "i", "o", "n", "\n">>)
TxtTrace == Str(<<"T", "r", "a", "c", "e">>)
TxtBack == Str(<<"b", "a", "c", "k", "\n">>)
HeadPieces == {<<>>, TxtOk, TxtTraceback, TxtUpperTraceback, TxtErrorColon, TxtException,
               TxtExit0, TxtExit1, TxtErrorSpawn, TxtTrace}
TailPieces == {<<>>, TxtOk, TxtTraceback, TxtLowerError, TxtExit0, TxtExit1, TxtBack}
Fills == {0, MAX_CONTENT - 17, MAX_CONTENT - 13, MAX_CONTENT - 12, MAX_CONTENT}
Mtimes == {0, 500}
Nows == {0, FRESH_MS - 1, FRESH_MS, FRESH_MS + 500}

InitStatus ==
  /\ InitSupervisor
  /\ call \in [fn : {"inferStatus"}, head : HeadPieces, fill : Fills, tail : TailPieces,
               mtimeMs : Mtimes, nowMs : Nows, ret : {"?"}]

\* parseBuildLog's status of the text head, filler, tail
InferStatusCall ==
  /\ call.fn = "inferStatus" /\ call.ret = "?"
  /\ call' = [call EXCEPT !.ret = inferStatus(call.head \o Fill(".", call.fill) \o call.tail,
                                              call.mtimeMs, call.nowMs)]
  /\ UNCHANGED <<now, up, activeBuilds, child, stream, files, used>>

NextStatus == InferStatusCall
SpecStatus == InitStatus /\ [][NextStatus]_vars

\* ------------------------------------------------- parameter rendering
\* JavaScript values of a request parameter. Numbers are counted in units of
\* 1/SCALE. A string is either the decimal text JavaScript prints for a number
\* (dec) or some other text (lit).
SCALE == 100
Undefined == [t |-> "undefined"]
Null == [t |-> "null"]
NaN == [t |-> "nan"]
Bool(b) == [t |-> "boolean", b |-> b]
Num(n) == [t |-> "number", v |-> n]
DecStr(n) == [t |-> "string", dec |-> n]
LitStr(x) == [t |-> "string", lit |-> x]
IsDec(x) == x.t = "string" /\ "dec" \in DOMAIN x
IsLit(x) == x.t = "string" /\ "lit" \in DOMAIN x

\* the numeric value of the texts that are not the decimal text of a number
\* (StringToNumber: blank text is 0, a padded or zero-led numeral is its
\* number, anything else is NaN)
LitTexts == {"", " ", "abc", "007", " 12 ", "null", "true", "false", "undefined", "NaN"}
LitNumber(x) ==
  CASE x \in {"", " "} -> Num(0)
    [] x = "007" -> Num(7 * SCALE)
    [] x = " 12 " -> Num(12 * SCALE)
    [] OTHER -> NaN

\* Number(x)
Number(x) ==
  CASE x.t = "number" -> x
    [] x.t = "nan" -> NaN
    [] x.t = "undefined" -> NaN
    [] x.t = "null" -> Num(0)
    [] x.t = "boolean" -> Num(IF x.b THEN SCALE ELSE 0)
    [] IsDec(x) -> Num(x.dec)
    [] OTHER -> LitNumber(x.lit)

\* String(x)
String(x) ==
  CASE x.t = "number" -> DecStr(x.v)
    [] x.t = "nan" -> LitStr("NaN")
    [] x.t = "undefined" -> LitStr("undefined")
    [] x.t = "null" -> LitStr("null")
    [] x.t = "boolean" -> LitStr(IF x.b THEN "true" ELSE "false")
    [] OTHER -> x

\* Number.isFinite(x) for a value without infinities
NumberIsFinite(x) == x.t = "number"
\* Math.floor(x), Math.max(k, x) with k whole
MathFloor(x) == IF x.t = "number" THEN Num((x.v \div SCALE) * SCALE) ELSE NaN
MathMax(k, x) == IF x.t = "number" THEN Num(IF x.v > k * SCALE THEN x.v ELSE k * SCALE) ELSE NaN

\* buildCommand of the jobs with number fields: the number arguments it puts
\* in cmd (by field name) and in publicParams
eval_metrics_buildCommand(params) ==
  LET thr == IF NumberIsFinite(Number(params["thr"])) THEN String(params["thr"]) ELSE DecStr(10)
      maxDelay == IF NumberIsFinite(Number(params["max_delay"]))
                  THEN String(params["max_delay"]) ELSE DecStr(50 * SCALE)
  IN [cmd |-> [f \in {"thr", "max_delay"} |-> IF f = "thr" THEN thr ELSE maxDelay],
      publicParams |-> [f \in {"thr", "max_delay"} |->
                          IF f = "thr" THEN Number(thr) ELSE Number(maxDelay)]]

boosting_train_buildCommand(params) ==
  LET nEstimators == IF NumberIsFinite(Number(params["n_estimators"]))
                     THEN String(MathMax(10, MathFloor(Number(params["n_estimators"]))))
                     ELSE DecStr(300 * SCALE)
      learningRate == IF params["learning_rate"] # Undefined
                      THEN String(Number(params["learning_rate"])) ELSE DecStr(5)
      maxDepth == IF params["max_depth"] # Undefined
                  THEN String(MathFloor(Number(params["max_depth"]))) ELSE DecStr(6 * SCALE)
      args == [f \in {"n_estimators", "learning_rate", "max_depth"} |->
                 CASE f = "n_estimators" -> nEstimators
                   [] f = "learning_rate" -> learningRate
                   [] OTHER -> maxDepth]
  IN [cmd |-> args, publicParams |-> [f \in DOMAIN args |-> Number(args[f])]]

sequence_train_buildCommand(params) ==
  LET maxSamples == IF NumberIsFinite(Number(params["max_samples"]))
                    THEN String(MathMax(0, MathFloor(Number(params["max_samples"]))))
                    ELSE DecStr(200000 * SCALE)
      window == IF NumberIsFinite(Number(params["window"]))
                THEN String(MathMax(2, MathFloor(Number(params["window"]))))
                ELSE DecStr(64 * SCALE)
      args == [f \in {"max_samples", "window"} |-> IF f = "max_samples" THEN maxSamples ELSE window]
  IN [cmd |-> args, publicParams |-> [f \in DOMAIN args |-> Number(args[f])]]

hmm_train_buildCommand(params) ==
  LET nStates == IF NumberIsFinite(Number(params["n_states"]))
                 THEN String(MathMax(2, MathFloor(Number(params["n_states"]))))
                 ELSE DecStr(3 * SCALE)
  IN [cmd |-> [f \in {"n_states"} |-> nStates],
      publicParams |-> [f \in {"n_states"} |-> Number(nStates)]]

validate_candidates_buildCommand(params) ==
  LET n == Number(params["limit"])
      limit == IF NumberIsFinite(n) /\ n.v > 0 THEN String(n) ELSE Null
  IN [cmd |-> [f \in (IF limit # Null THEN {"limit"} ELSE {}) |-> limit],
      publicParams |-> [f \in {"limit"} |-> IF limit # Null THEN Number(limit) ELSE Undefined]]

\* the number fields each job declares, and their declared defaults
NumberFields ==
  [eval_metrics |-> {"thr", "max_delay"},
   boosting_train |-> {"n_estimators", "learning_rate", "max_depth"},
   sequence_train |-> {"max_samples", "window"},
   hmm_train |-> {"n_states"},
   validate_candidates |-> {"limit"}]
RenderJobs == DOMAIN NumberFields
AllNumberFields == UNION {NumberFields[j] : j \in RenderJobs}
FieldDefault ==
  [thr |-> 10, max_delay |-> 50 * SCALE, n_estimators |-> 300 * SCALE, learning_rate |-> 5,
   max_depth |-> 6 * SCALE, max_samples |-> 200000 * SCALE, window |-> 64 * SCALE,
   n_states |-> 3 * SCALE, limit |-> 0]

buildCommand(job, params) ==
  CASE job = "eval_metrics" -> eval_metrics_buildCommand(params)
    [] job = "boosting_train" -> boosting_train_buildCommand(params)
    [] job = "sequence_train" -> sequence_train_buildCommand(params)
    [] job = "hmm_train" -> hmm_train_buildCommand(params)
    [] OTHER -> validate_candidates_buildCommand(params)

\* what a request body can carry for one field
ParamNumbers == {-5 * SCALE, -1, 0, 5, 150, 10 * SCALE, 300 * SCALE}
ParamValues ==
  {Undefined, Null, Bool(TRUE), Bool(FALSE)} \cup {Num(n) : n \in ParamNumbers}
  \cup {DecStr(n) : n \in {-3 * SCALE, 12 * SCALE}} \cup {LitStr(x) : x \in LitTexts}

InitRender ==
  /\ InitSupervisor
  /\ \E j \in RenderJobs :
       call \in [fn : {"buildCommand"}, job : {j}, field : NumberFields[j],
                 value : ParamValues, done : {FALSE}, ret : {Undefined}]

\* def.buildCommand(params) with one number field supplied
RenderCall ==
  /\ call.fn = "buildCommand" /\ ~call.done
  /\ call' = [call EXCEPT !.done = TRUE, !.ret = buildCommand(call.job,
                 [f \in AllNumberFields |-> IF f = call.field THEN call.value ELSE Undefined])]
  /\ UNCHANGED <<now, up, activeBuilds, child, stream, files, used>>

NextRender == RenderCall
SpecRender == InitRender /\ [][NextRender]_vars

\* ------------------------------------------------ the job registry
\* three of the definitions, with the fields availability reads
BUILD_DEFINITIONS ==
  [lambda_sweep |-> [id |-> "lambda_sweep",
                     requiredScripts |-> <<"scripts/lambda_sweep.py", "configs/lambda_sweep.yaml">>],
   eval_metrics |-> [id |-> "eval_metrics", requiredScripts |-> <<"scripts/detection_metrics.py">>],
   autotune |-> [id |-> "autotune", requiredScripts |-> <<"scripts/autotune_and_run.py">>]]
Scripts == UNION {{d.requiredScripts[i] : i \in 1..Len(d.requiredScripts)} :
                  d \in {BUILD_DEFINITIONS[k] : k \in DOMAIN BUILD_DEFINITIONS}}
\* property names every object literal inherits from Object.prototype
ObjectPrototypeKeys == {"constructor", "toString"}

\* BUILD_DEFINITIONS[jobId]: an own definition, an inherited member, undefined
Lookup(key) ==
  IF key \in DOMAIN BUILD_DEFINITIONS THEN BUILD_DEFINITIONS[key]
  ELSE IF key \in ObjectPrototypeKeys THEN [inherited |-> key]
  ELSE Undefined

\* resolveMissingScripts: the required scripts fs.existsSync does not find
resolveMissingScripts(definition, disk) ==
  IF "requiredScripts" \in DOMAIN definition
  THEN SelectSeq(definition.requiredScripts, LAMBDA script : script \notin disk)
  ELSE <<>>

\* definitionAvailability with the list left out of the result
definitionAvailability_NoList(definition, disk) ==
  LET missingScripts == resolveMissingScripts(definition, disk)
  IN IF Len(missingScripts) > 0
     THEN [enabled |-> FALSE, missingScripts |-> <<>>,
           reason |-> [missing |-> IF Len(missingScripts) > 1 THEN "scripts" ELSE "script",
                       list |-> missingScripts]]
     ELSE [enabled |-> TRUE, missingScripts |-> missingScripts, reason |-> Null]

\* definitionAvailability, with fs.existsSync answered by disk
definitionAvailability(definition, disk) ==
  LET baseEnabled == IF "enabled" \in DOMAIN definition THEN definition.enabled # FALSE ELSE TRUE
      missingScripts == resolveMissingScripts(definition, disk)
  IN IF Len(missingScripts) > 0
     THEN [enabled |-> FALSE, missingScripts |-> missingScripts,
           reason |-> [missing |-> IF Len(missingScripts) > 1 THEN "scripts" ELSE "script",
                       list |-> missingScripts]]
     ELSE [enabled |-> baseEnabled, missingScripts |-> missingScripts,
           reason |-> IF baseEnabled \/ "disabled_reason" \notin DOMAIN definition
                      THEN Null ELSE definition.disabled_reason]

\* serializeDefinitions: the fields availability decides
serializeDefinitions(disk) ==
  [k \in DOMAIN BUILD_DEFINITIONS |->
     LET availability == definitionAvailability(BUILD_DEFINITIONS[k], disk)
     IN [id |-> BUILD_DEFINITIONS[k].id, enabled |-> availability.enabled,
         disabled_reason |-> availability.reason,
         missing_scripts |-> availability.missingScripts]]

\* the start handler testing only the definition's static enabled flag, as
\* the other version of the server does
StartCheck_StaticOnly(jobId, disk) ==
  IF jobId = Undefined \/ jobId = LitStr("") \/ Lookup(jobId.lit) = Undefined
  THEN [status |-> 400, error |-> "Unknown build job", rendered |-> FALSE, missing_scripts |-> <<>>]
  ELSE LET def == Lookup(jobId.lit)
       IN IF "enabled" \in DOMAIN def /\ def.enabled = FALSE
          THEN [status |-> 400, error |-> "disabled", rendered |-> FALSE, missing_scripts |-> <<>>]
          ELSE IF "inherited" \in DOMAIN def
          THEN [status |-> 400, error |-> "Invalid build command", rendered |-> FALSE,
                missing_scripts |-> <<>>]
          ELSE [status |-> 0, error |-> "", rendered |-> TRUE, missing_scripts |-> <<>>]

\* POST /api/builds/start up to the command check: the response it sends, or
\* status 0 when it goes on to spawn; rendered tells whether buildCommand ran
StartCheck(jobId, disk) ==
  IF jobId = Undefined \/ jobId = LitStr("") \/ Lookup(jobId.lit) = Undefined
  THEN [status |-> 400, error |-> "Unknown build job", rendered |-> FALSE, missing_scripts |-> <<>>]
  ELSE LET def == Lookup(jobId.lit)
           availability == definitionAvailability(def, disk)
       IN IF ~availability.enabled
          THEN [status |-> 400, error |-> "disabled", rendered |-> FALSE,
                missing_scripts |-> availability.missingScripts]
          ELSE IF "inherited" \in DOMAIN def
          THEN [status |-> 400, error |-> "Invalid build command", rendered |-> FALSE,
                missing_scripts |-> <<>>]
          ELSE [status |-> 0, error |-> "", rendered |-> TRUE, missing_scripts |-> <<>>]

StartJobIds ==
  {Undefined} \cup {LitStr(k) : k \in DOMAIN BUILD_DEFINITIONS \cup ObjectPrototypeKeys \cup {"", "nosuch"}}

InitDefs ==
  /\ InitSupervisor
  /\ \/ call \in [fn : {"start"}, jobId : StartJobIds, disk : SUBSET Scripts,
                  done : {FALSE}, ret : {Undefined}]
     \/ call \in [fn : {"definitions"}, disk : SUBSET Scripts, done : {FALSE}, ret : {Undefined}]

StartCheckCall ==
  /\ call.fn = "start" /\ ~call.done
  /\ call' = [call EXCEPT !.done = TRUE, !.ret = StartCheck(call.jobId, call.disk)]
  /\ UNCHANGED <<now, up, activeBuilds, child, stream, files, used>>

\* GET /api/builds/definitions
SerializeCall ==
  /\ call.fn = "definitions" /\ ~call.done
  /\ call' = [call EXCEPT !.done = TRUE, !.ret = serializeDefinitions(call.disk)]
  /\ UNCHANGED <<now, up, activeBuilds, child, stream, files, used>>

NextDefs == StartCheckCall \/ SerializeCall
SpecDefs == InitDefs /\ [][NextDefs]_vars

\* ------------------------------------------------ the builds listing
MaxFiles == 3
DAY_MS == 86400000
\* a Date of ms milliseconds since the epoch
DateOf(ms) == [t |-> "date", ms |-> ms]
\* date.toISOString(): the calendar day and the time of day it prints
toISOString(date) == [t |-> "iso", day |-> date.ms \div DAY_MS, tod |-> date.ms % DAY_MS]
\* Date.parse(s) of such a string
DateParse(s) == s.day * DAY_MS + s.tod

\* what a log's text gives as start (first line with a timestamp prefix) and
\* what its name gives (the stamp), each a Date or null
ContentStarts == {Null, DateOf(-60000), DateOf(60000)}
NameStarts == {Null, DateOf(0), DateOf(120000)}
\* the entries readdir can return under the name of position i
DirEntries(i) ==
  [name : {i}, isFile : BOOLEAN, log : BOOLEAN, start : ContentStarts, startedAt : NameStarts]

\* parseBuildLog: the fields of info the listing orders by
parseBuildLogStart(entry) ==
  LET started == IF entry.start # Null THEN entry.start ELSE entry.startedAt
  IN [logfile |-> entry.name,
      started_at |-> IF started # Null THEN toISOString(started) ELSE Null]

\* the comparator's operand: a.started_at ? Date.parse(a.started_at) : 0
SortOperand(a) == IF a.started_at # Null THEN DateParse(a.started_at) ELSE 0
\* (a, b) => tb - ta
buildsComparator(a, b) == SortOperand(b) - SortOperand(a)

\* Array.prototype.sort (stable): b goes before the first element the
\* comparator orders after it
RECURSIVE SortInsert(_, _)
SortInsert(sorted, b) ==
  IF sorted = <<>> THEN <<b>>
  ELSE IF buildsComparator(Head(sorted), b) > 0 THEN <<b>> \o sorted
  ELSE <<Head(sorted)>> \o SortInsert(Tail(sorted), b)
RECURSIVE buildsSort(_)
buildsSort(builds) ==
  IF builds = <<>> THEN <<>>
  ELSE SortInsert(buildsSort(SubSeq(builds, 1, Len(builds) - 1)), builds[Len(builds)])

\* GET /api/builds: the builds of the response for a directory listing
RECURSIVE logsOf(_)
logsOf(entries) ==
  IF entries = <<>> THEN <<>>
  ELSE (IF Head(entries).isFile /\ Head(entries).log
        THEN <<parseBuildLogStart(Head(entries))>> ELSE <<>>) \o logsOf(Tail(entries))
GetBuildsSorted(entries) == buildsSort(logsOf(entries))

Directories ==
  {<<>>} \cup UNION {{f \in [1..n -> UNION {DirEntries(i) : i \in 1..n}] :
                        \A i \in 1..n : f[i].name = i} : n \in 1..MaxFiles}

InitList ==
  /\ InitSupervisor
  /\ call \in [fn : {"builds"}, entries : Directories, done : {FALSE}, ret : {Undefined}]

GetBuildsCall ==
  /\ call.fn = "builds" /\ ~call.done
  /\ call' = [call EXCEPT !.done = TRUE, !.ret = GetBuildsSorted(call.entries)]
  /\ UNCHANGED <<now, up, activeBuilds, child, stream, files, used>>

NextList == GetBuildsCall
SpecList == InitList /\ [][NextList]_vars

\* ------------------------------------------------------ reading a log
\* names in logs/pipeline and the texts a file can hold
LogNames == {"a.log", "b.log", "notes.txt"}
LogTexts == {"", "[START] x"}
\* the directory: the names present, each with its text
LogDisks == UNION {[S -> LogTexts] : S \in SUBSET LogNames}
\* req.query.file: absent, or a path given by its segments
QueryFiles ==
  {Undefined} \cup {[t |-> "path", segs |-> <<n>>] : n \in LogNames \cup {"gone.log"}}
              \cup {[t |-> "path", segs |-> <<"..", n>>] : n \in LogNames \cup {"gone.log"}}
\* path.basename(String(file)): the last segment
basename(file) == file.segs[Len(file.segs)]

\* the names of the listing: regular files ending in .log, sorted
logFilesListing(disk) == {n \in DOMAIN disk : n \in {"a.log", "b.log"}}

\* GET /api/logs
GetLogs(query, disk) ==
  LET file == IF query # Undefined THEN basename(query) ELSE ""
  IN IF file = ""
     THEN [status |-> 200, type |-> "json", files |-> logFilesListing(disk), body |-> ""]
     ELSE [status |-> 200, type |-> "text/plain", files |-> {},
           body |-> IF file \in DOMAIN disk THEN disk[file] ELSE ""]

InitLogs ==
  /\ InitSupervisor
  /\ call \in [fn : {"logs"}, file : QueryFiles, disk : LogDisks, done : {FALSE}, ret : {Undefined}]

GetLogsCall ==
  /\ call.fn = "logs" /\ ~call.done
  /\ call' = [call EXCEPT !.done = TRUE, !.ret = GetLogs(call.file, call.disk)]
  /\ UNCHANGED <<now, up, activeBuilds, child, stream, files, used>>

NextLogs == GetLogsCall
SpecLogs == InitLogs /\ [][NextLogs]_vars

\* -------------------------------------------------- the autotune scan
MaxLines == 4
\* the markers a line of the log matches: the command echo (cmdRe), a trial
\* start (startRe), load statistics (loadedRe), a run path (wroteRe), a
\* summary (summaryRe), and the timestamp prefix the summary's end_ts needs.
\* What a marker captures is named by the number of the line that holds it.
Line(cmd, start, loaded, wrote, summary, ts) ==
  [cmd |-> cmd, start |-> start, loaded |-> loaded, wrote |-> wrote, summary |-> summary, ts |-> ts]
LineKinds ==
  {Line(FALSE, FALSE, FALSE, FALSE, FALSE, FALSE),
   Line(TRUE, FALSE, FALSE, FALSE, FALSE, FALSE),
   Line(FALSE, TRUE, FALSE, FALSE, FALSE, TRUE),
   Line(FALSE, FALSE, TRUE, FALSE, FALSE, TRUE),
   Line(FALSE, FALSE, FALSE, TRUE, FALSE, TRUE),
   Line(FALSE, FALSE, FALSE, FALSE, TRUE, TRUE),
   Line(FALSE, FALSE, FALSE, FALSE, TRUE, FALSE),
   Line(FALSE, FALSE, TRUE, TRUE, TRUE, TRUE),
   Line(FALSE, TRUE, FALSE, FALSE, TRUE, TRUE),
   Line(FALSE, TRUE, TRUE, FALSE, FALSE, TRUE)}
AutotuneTexts == UNION {[1..n -> LineKinds] : n \in 0..MaxLines}

\* the scan before the first line: gridCp / gridK null, current null, no rows
ScanInit == [gridCp |-> 0, current |-> Null, rows |-> <<>>]

\* the body of the loop for the line numbered i, with the trial start
\* merged into the open trial
scanLine_MergeOnStart(st, line, i) ==
  LET grid == IF st.gridCp = 0 /\ line.cmd THEN i ELSE st.gridCp
  IN IF line.start
     THEN [st EXCEPT !.gridCp = grid,
                     !.current = IF st.current = Null
                                 THEN [start_ts |-> i, grid_cp |-> grid, bars |-> 0, run_path |-> 0]
                                 ELSE [st.current EXCEPT !.start_ts = i, !.grid_cp = grid]]
     ELSE IF st.current # Null
     THEN LET c1 == IF line.loaded THEN [st.current EXCEPT !.bars = i] ELSE st.current
              c2 == IF line.wrote THEN [c1 EXCEPT !.run_path = i] ELSE c1
          IN IF line.summary
             THEN [gridCp |-> grid, current |-> Null,
                   rows |-> Append(st.rows,
                              [start_ts |-> c2.start_ts, grid_cp |-> c2.grid_cp, bars |-> c2.bars,
                               run_path |-> c2.run_path, run_id |-> i,
                               end_ts |-> IF line.ts THEN i ELSE 0,
                               duration_s |-> IF line.ts THEN i - c2.start_ts ELSE -1])]
             ELSE [st EXCEPT !.gridCp = grid, !.current = c2]
     ELSE [st EXCEPT !.gridCp = grid]

\* the body of the loop for the line numbered i, with the trial left open
\* after its row is pushed
scanLine_KeepOpen(st, line, i) ==
  LET grid == IF st.gridCp = 0 /\ line.cmd THEN i ELSE st.gridCp
  IN IF line.start
     THEN [st EXCEPT !.gridCp = grid,
                     !.current = [start_ts |-> i, grid_cp |-> grid, bars |-> 0, run_path |-> 0]]
     ELSE IF st.current # Null
     THEN LET c1 == IF line.loaded THEN [st.current EXCEPT !.bars = i] ELSE st.current
              c2 == IF line.wrote THEN [c1 EXCEPT !.run_path = i] ELSE c1
          IN IF line.summary
             THEN [gridCp |-> grid, current |-> c2,
                   rows |-> Append(st.rows,
                              [start_ts |-> c2.start_ts, grid_cp |-> c2.grid_cp, bars |-> c2.bars,
                               run_path |-> c2.run_path, run_id |-> i,
                               end_ts |-> IF line.ts THEN i ELSE 0,
                               duration_s |-> IF line.ts THEN i - c2.start_ts ELSE -1])]
             ELSE [st EXCEPT !.gridCp = grid, !.current = c2]
     ELSE [st EXCEPT !.gridCp = grid]

\* the body of the loop of parseAutotuneLogsFromText for the line numbered i.
\* In current and in a row, 0 is a field not set (null for end_ts) and -1 a
\* duration_s not set; timestamps count seconds by line number.
scanLine(st, line, i) ==
  LET grid == IF st.gridCp = 0 /\ line.cmd THEN i ELSE st.gridCp
  IN IF line.start
     THEN [st EXCEPT !.gridCp = grid,
                     !.current = [start_ts |-> i, grid_cp |-> grid, bars |-> 0, run_path |-> 0]]
     ELSE IF st.current # Null
     THEN LET c1 == IF line.loaded THEN [st.current EXCEPT !.bars = i] ELSE st.current
              c2 == IF line.wrote THEN [c1 EXCEPT !.run_path = i] ELSE c1
          IN IF line.summary
             THEN [gridCp |-> grid, current |-> Null,
                   rows |-> Append(st.rows,
                              [start_ts |-> c2.start_ts, grid_cp |-> c2.grid_cp, bars |-> c2.bars,
                               run_path |-> c2.run_path, run_id |-> i,
                               end_ts |-> IF line.ts THEN i ELSE 0,
                               duration_s |-> IF line.ts THEN i - c2.start_ts ELSE -1])]
             ELSE [st EXCEPT !.gridCp = grid, !.current = c2]
     ELSE [st EXCEPT !.gridCp = grid]

InitScan ==
  /\ InitSupervisor
  /\ call \in [fn : {"autotune"}, lines : AutotuneTexts, i : {1}, st : {ScanInit}]

\* one iteration of for (const line of lines)
ScanLine ==
  /\ call.fn = "autotune" /\ call.i <= Len(call.lines)
  /\ call' = [call EXCEPT !.i = @ + 1, !.st = scanLine(call.st, call.lines[call.i], call.i)]
  /\ UNCHANGED <<now, up, activeBuilds, child, stream, files, used>>

NextScan == ScanLine
SpecScan == InitScan /\ [][NextScan]_vars

\* ------------------------------------------- floating-point numbers
\* A finite JS number is a binary floating-point value m * 2^e with the
\* significand m normalised to SignificandBits bits (53 in a double; the
\* exponent range is not modelled).  Every operation rounds its exact result
\* to the nearest such value, ties to the even significand.
SignificandBits == 8
Flt(m, e) == [t |-> "float", m |-> m, e |-> e]
FZero == Flt(0, 0)
\* the number of bits of n >= 0
BitLen(n) == IF n = 0 THEN 0 ELSE CHOOSE k \in 1..31 : 2^(k - 1) <= n /\ (k = 31 \/ n < 2^k)
\* Op applied to its operands, each evaluated once
Eval2(Op(_, _), x, y) == CHOOSE r \in {Op(a, b) : a \in {x}, b \in {y}} : TRUE
Eval3(Op(_, _, _), x, y, z) == CHOOSE r \in {Op(a, b, c) : a \in {x}, b \in {y}, c \in {z}} : TRUE
\* the float nearest to n * 2^e
FRoundValue(n, e) ==
  LET a == IF n < 0 THEN -n ELSE n
      s == IF n < 0 THEN -1 ELSE 1
      len == BitLen(a)
  IN IF a = 0 THEN FZero
     ELSE IF len <= SignificandBits
     THEN Flt(s * a * 2^(SignificandBits - len), e - (SignificandBits - len))
     ELSE LET k == len - SignificandBits
              q == a \div 2^k
              r == a % 2^k
              roundUp == r > 2^(k - 1) \/ (r = 2^(k - 1) /\ q % 2 = 1)
              q2 == IF roundUp THEN q + 1 ELSE q
          IN IF q2 = 2^SignificandBits
             THEN Flt(s * 2^(SignificandBits - 1), e + k + 1)
             ELSE Flt(s * q2, e + k)
FRound(n, e) == Eval2(FRoundValue, n, e)
\* the whole number n, and the decimal literal n / d
F(n) == FRound(n, 0)
FIsFinite(x) == x.t = "float"
FNeg(x) == Flt(-x.m, x.e)
\* x + y, x - y, x * y, x / y (y not 0) of finite numbers
FAddValue(x, y) ==
  IF x.m = 0 THEN y ELSE IF y.m = 0 THEN x
  ELSE LET e == IF x.e < y.e THEN x.e ELSE y.e
       IN FRound(x.m * 2^(x.e - e) + y.m * 2^(y.e - e), e)
FAdd(x, y) == Eval2(FAddValue, x, y)
FSub(x, y) == FAdd(x, FNeg(y))
FMulValue(x, y) == FRound(x.m * y.m, x.e + y.e)
FMul(x, y) == Eval2(FMulValue, x, y)
FDivValue(x, y) ==
  LET ax == IF x.m < 0 THEN -x.m ELSE x.m
      ay == IF y.m < 0 THEN -y.m ELSE y.m
      s == IF (x.m < 0) = (y.m < 0) THEN 1 ELSE -1
      num == ax * 2^(SignificandBits + 2)
      q == num \div ay
      sticky == IF num % ay = 0 THEN 0 ELSE 1
  IN FRound(s * (2 * q + sticky), x.e - y.e - (SignificandBits + 2) - 1)
\* x / y: NaN for 0 / 0 and an infinity for any other division by zero
FDiv(x, y) ==
  IF y.m # 0 THEN Eval2(FDivValue, x, y)
  ELSE IF x.m = 0 THEN NaN ELSE [t |-> "infinity", negative |-> x.m < 0]
Dec(n, d) == FDiv(F(n), F(d))
FGt0(x) == x.m > 0

\* ------------------------------------------------ regime attribution
\* (src/unnamed/part_002)
MaxSamples == 2
MaxRows == 2

\* A timestamp text: "iso" is the text toISOString prints for instant id,
\* "offset" another text Date parses to the same instant, "text" a text Date
\* does not parse, "spaced" the same text with its 'T' written as a space.
Ts(form, id) == [t |-> "ts", form |-> form, id |-> id]
DateValid(ts) == ts.form \in {"iso", "offset"}
\* new Date(ts).toISOString() of a text Date parses
DateISO(ts) == [ts EXCEPT !.form = "iso"]
\* rawTs.replace(' ', 'T')
replaceSpace(ts) == IF ts.form = "spaced" THEN [ts EXCEPT !.form = "text"] ELSE ts

\* a CSV cell: the text of a whole number, the empty cell, another text
WholeText(n) == [t |-> "string", whole |-> n]
\* Number(x) of a cell, of undefined, of null, of a number
FNumber(x) ==
  CASE x.t = "float" -> x
    [] x.t = "string" /\ "whole" \in DOMAIN x -> F(x.whole)
    [] x = LitStr("") -> FZero
    [] x = Null -> FZero
    [] OTHER -> NaN

\* readEquity: the rows of equity.csv, whose header always has the timestamp
\* column and has the equity and incremental_pnl columns as csv.header says.
\* A row keeps timestamp and equity only.
readEquity(csv) ==
  [i \in 1..Len(csv.rows) |->
     [timestamp |-> csv.rows[i].timestamp,
      equity |-> FNumber(IF csv.header.equity THEN csv.rows[i].equity
                         ELSE IF csv.header.incremental_pnl THEN csv.rows[i].incremental_pnl
                         ELSE F(0))]]

\* the increment of a row, were the first level to count as a step from 0
rowIncrement_FromZero(inc, equityVal, prevEquity) ==
  IF FIsFinite(inc) THEN inc
  ELSE IF FIsFinite(equityVal)
  THEN (IF FIsFinite(prevEquity) THEN FSub(equityVal, prevEquity) ELSE equityVal)
  ELSE FZero
\* the increment of a row: its incremental_pnl when that is a number, else
\* the step from prevEquity to its equity, else 0
rowIncrement(inc, equityVal, prevEquity) ==
  IF FIsFinite(inc) THEN inc
  ELSE IF FIsFinite(equityVal) /\ FIsFinite(prevEquity) THEN FSub(equityVal, prevEquity)
  ELSE FZero
\* prevEquity after the row
rowPrevEquity(inc, equityVal, prevEquity) ==
  IF ~FIsFinite(inc) /\ FIsFinite(equityVal) THEN equityVal ELSE prevEquity
\* the key of a row in equityMap
rowKey(rawTs) == IF DateValid(rawTs) THEN DateISO(rawTs) ELSE replaceSpace(rawTs)
rowIncrementalPnl(row) ==
  FNumber(IF "incremental_pnl" \in DOMAIN row THEN row.incremental_pnl ELSE Undefined)

\* the equityMap loop: rows still to read, prevEquity, the map so far
RECURSIVE equityMapFrom(_, _, _)
equityMapFrom(rows, prevEquity, map) ==
  IF rows = <<>> THEN map
  ELSE IF Head(rows).timestamp = Undefined THEN equityMapFrom(Tail(rows), prevEquity, map)
  ELSE Eval3(equityMapFrom, Tail(rows),
             Eval3(rowPrevEquity, rowIncrementalPnl(Head(rows)), FNumber(Head(rows).equity),
                   prevEquity),
             MapSet(map, rowKey(Head(rows).timestamp),
                    Eval3(rowIncrement, rowIncrementalPnl(Head(rows)),
                          FNumber(Head(rows).equity), prevEquity)))
equityMapOf(equity) == equityMapFrom(equity, Null, <<>>)

\* bkWeight /= totalWeight; mrWeight /= totalWeight, or the default pair
renormalise(bkWeight, mrWeight, totalWeight) ==
  IF FGt0(totalWeight)
  THEN [breakout |-> FDiv(bkWeight, totalWeight), mean_revert |-> FDiv(mrWeight, totalWeight)]
  ELSE [breakout |-> F(0), mean_revert |-> F(1)]
\* the default pair when a weight is still no number, then the sum
defaultPair(bkWeight, mrWeight) ==
  IF ~FIsFinite(bkWeight) \/ ~FIsFinite(mrWeight)
  THEN renormalise(F(0), F(1), F(1))
  ELSE Eval3(renormalise, bkWeight, mrWeight, FAdd(bkWeight, mrWeight))
\* mrWeight = 1 - bkWeight when only bkWeight is a number
complementMean(bkWeight, mrWeight) ==
  Eval2(defaultPair, bkWeight,
        IF ~FIsFinite(mrWeight) /\ FIsFinite(bkWeight) THEN FSub(F(1), bkWeight) ELSE mrWeight)
\* bkWeight = 1 - mrWeight when only mrWeight is a number
complementBreakout(bkWeight, mrWeight) ==
  Eval2(complementMean,
        IF ~FIsFinite(bkWeight) /\ FIsFinite(mrWeight) THEN FSub(F(1), mrWeight) ELSE bkWeight,
        mrWeight)
\* the weights of one sample: complement, default, renormalisation
sampleWeights(breakoutSrc, meanSrc) ==
  Eval2(complementBreakout, FNumber(breakoutSrc), FNumber(meanSrc))

RegimeStart ==
  [totalPnl |-> F(0), timeWeightMr |-> F(0), timeWeightBk |-> F(0), pnlMr |-> F(0),
   pnlBk |-> F(0), timeline |-> <<>>]

\* the sums and the timeline after a sample of weights w and increment inc
accumulate(acc, entry, w, inc) ==
  [totalPnl |-> FAdd(acc.totalPnl, inc),
   timeWeightMr |-> FAdd(acc.timeWeightMr, w.mean_revert),
   timeWeightBk |-> FAdd(acc.timeWeightBk, w.breakout),
   pnlMr |-> FAdd(acc.pnlMr, FMul(inc, w.mean_revert)),
   pnlBk |-> FAdd(acc.pnlBk, FMul(inc, w.breakout)),
   timeline |-> Append(acc.timeline,
                  [timestamp |-> entry.timestamp, mean_revert |-> w.mean_revert,
                   breakout |-> w.breakout, incremental_pnl |-> inc])]
\* equityMap.get(ts) ?? 0 for the sample's timestamp
incrementAt(entry, equityMap) ==
  LET ts == IF DateValid(entry.timestamp) THEN DateISO(entry.timestamp) ELSE entry.timestamp
  IN IF ts \in DOMAIN equityMap THEN equityMap[ts] ELSE F(0)

\* the loop over the weight samples
RECURSIVE regimeLoop(_, _, _)
regimeLoop(models, equityMap, acc) ==
  IF models = <<>> THEN acc
  ELSE IF Head(models).timestamp = Undefined THEN regimeLoop(Tail(models), equityMap, acc)
  ELSE Eval3(regimeLoop, Tail(models), equityMap,
             CHOOSE r \in {accumulate(a, Head(models), w, inc) :
                             a \in {acc},
                             w \in {sampleWeights(Head(models).breakout, Head(models).mean_reversion)},
                             inc \in {incrementAt(Head(models), equityMap)}} : TRUE)

\* the result for no samples, with the total left at 0
degenerateResult_ZeroTotal(summary) ==
  [total |-> [pnl |-> F(0), observations |-> 0], regimes |-> <<>>, timeline |-> <<>>]

\* the result for no samples: Number(summary.total_pnl) || 0 as the total
degenerateResult(summary) ==
  [total |-> [pnl |-> IF FIsFinite(FNumber(summary.total_pnl))
                      THEN FNumber(summary.total_pnl) ELSE F(0),
              observations |-> 0],
   regimes |-> <<>>, timeline |-> <<>>]

\* totalPnl ? pnl / totalPnl : 0
pnlShare(pnl, totalPnl) == IF totalPnl # FZero THEN FDiv(pnl, totalPnl) ELSE F(0)

\* the result, were the time sums divided by the length of the timeline as it is
regimeResult_NoDefault(acc, timelineLength) ==
  [total |-> [pnl |-> acc.totalPnl, observations |-> timelineLength],
   regimes |-> <<[id |-> "mean_revert",
                  time_share |-> FDiv(acc.timeWeightMr,
                                      F(timelineLength)),
                  pnl |-> acc.pnlMr, pnl_share |-> pnlShare(acc.pnlMr, acc.totalPnl)],
                 [id |-> "breakout",
                  time_share |-> FDiv(acc.timeWeightBk,
                                      F(timelineLength)),
                  pnl |-> acc.pnlBk, pnl_share |-> pnlShare(acc.pnlBk, acc.totalPnl)]>>,
   timeline |-> acc.timeline]
\* the result for the sums of the loop
regimeResult(acc, timelineLength) ==
  [total |-> [pnl |-> acc.totalPnl, observations |-> timelineLength],
   regimes |-> <<[id |-> "mean_revert",
                  time_share |-> FDiv(acc.timeWeightMr,
                                      F(IF timelineLength = 0 THEN 1 ELSE timelineLength)),
                  pnl |-> acc.pnlMr, pnl_share |-> pnlShare(acc.pnlMr, acc.totalPnl)],
                 [id |-> "breakout",
                  time_share |-> FDiv(acc.timeWeightBk,
                                      F(IF timelineLength = 0 THEN 1 ELSE timelineLength)),
                  pnl |-> acc.pnlBk, pnl_share |-> pnlShare(acc.pnlBk, acc.totalPnl)]>>,
   timeline |-> acc.timeline]
regimeResultOf(acc) == regimeResult(acc, Len(acc.timeline))

\* readRegimeBreakdown over the three artifacts; each is [ok |-> FALSE] when
\* its read fails
readRegimeBreakdown(models, equityCsv, summaryFile) ==
  IF ~models.ok \/ ~models.array \/ models.items = <<>>
  THEN degenerateResult(IF summaryFile.ok THEN summaryFile.json ELSE [total_pnl |-> Undefined])
  ELSE CHOOSE r \in {regimeResultOf(acc) :
                      acc \in {regimeLoop(models.items,
                                          equityMapOf(IF equityCsv.ok THEN readEquity(equityCsv)
                                                      ELSE <<>>),
                                          RegimeStart)}} : TRUE

\* the inputs drawn for regime attribution
NoArtifact == [ok |-> FALSE]
WeightValues == {Undefined, F(0), F(1), F(3), F(-1), Dec(7, 10), Dec(3, 10), Dec(1, 10)}
Sample(ts, bk, mr) == [timestamp |-> ts, breakout |-> bk, mean_reversion |-> mr]
Models(items) == [ok |-> TRUE, array |-> TRUE, items |-> items]
EquityCsv(hasEquity, hasInc, rows) ==
  [ok |-> TRUE, header |-> [equity |-> hasEquity, incremental_pnl |-> hasInc], rows |-> rows]
Summary(totalPnl) == [ok |-> TRUE, json |-> [total_pnl |-> totalPnl]]
CsvRows ==
  [timestamp : {Undefined, Ts("iso", 1), Ts("iso", 2), Ts("spaced", 1)},
   equity : {WholeText(10), WholeText(30), LitStr("n/a")},
   incremental_pnl : {WholeText(10), WholeText(20)}]
CsvTexts == UNION {[1..n -> CsvRows] : n \in 0..MaxRows}

\* one sample of any weights over a fixed equity file
WeightInputs ==
  {[fn |-> "regime", models |-> Models(<<Sample(ts, bk, mr)>>),
    equity |-> EquityCsv(TRUE, FALSE, <<[timestamp |-> Ts("iso", 1), equity |-> WholeText(10),
                                        incremental_pnl |-> WholeText(10)]>>),
    summary |-> Summary(F(5)), done |-> FALSE, ret |-> Undefined] :
     ts \in {Undefined, Ts("iso", 1), Ts("text", 1)}, bk \in WeightValues, mr \in WeightValues}
\* two samples of weights 0.7/0.3 and 0.3/0.7 for the breakout regime over any
\* equity file
PnlInputs ==
  {[fn |-> "regime",
    models |-> Models(<<Sample(ts1, Dec(7, 10), Dec(3, 10)), Sample(ts2, Dec(3, 10), Dec(7, 10))>>),
    equity |-> EquityCsv(he, hi, rows), summary |-> Summary(F(5)), done |-> FALSE,
    ret |-> Undefined] :
     ts1 \in {Ts("iso", 1), Ts("offset", 1)}, ts2 \in {Ts("iso", 2), Ts("text", 1)},
     he \in BOOLEAN, hi \in BOOLEAN, rows \in CsvTexts}
\* no samples: the extractor fails, or answers something that is no list, or
\* an empty list
DegenerateInputs ==
  {[fn |-> "regime", models |-> m, equity |-> e, summary |-> s, done |-> FALSE, ret |-> Undefined] :
     m \in {NoArtifact, [ok |-> TRUE, array |-> FALSE, items |-> <<>>], Models(<<>>)},
     e \in {NoArtifact, EquityCsv(TRUE, FALSE, <<>>)},
     s \in {NoArtifact} \cup {Summary(v) : v \in {Undefined, Null, F(0), F(5), F(-3),
                                                   LitStr("n/a"), WholeText(5)}}}

InitRegime ==
  /\ InitSupervisor
  /\ call \in WeightInputs \cup PnlInputs \cup DegenerateInputs

RegimeCall ==
  /\ call.fn = "regime" /\ ~call.done
  /\ call' = [call EXCEPT !.done = TRUE,
                          !.ret = readRegimeBreakdown(call.models, call.equity, call.summary)]
  /\ UNCHANGED <<now, up, activeBuilds, child, stream, files, used>>

NextRegime == RegimeCall
SpecRegime == InitRegime /\ [][NextRegime]_vars

\* ---------------------------------- round trips and window correlation
\* (src/unnamed/part_002)
MaxTrades == 2
\* new Date(text).getTime() in milliseconds: the instant id counts seconds
getTime(ts) == IF DateValid(ts) THEN Num(ts.id * 1000 * SCALE) ELSE NaN
\* a JS value taken as a condition
Truthy(x) == x # Undefined /\ x # Null /\ x # LitStr("")

\* readTrades: the rows of trades.csv (limit 1000, offset 0)
readTrades(csv) ==
  [i \in 1..Len(csv.rows) |->
     [entry_time |-> csv.rows[i].entry_time, exit_time |-> csv.rows[i].exit_time,
      pnl |-> FNumber(csv.rows[i].pnl)]]

\* exit.getTime() - entry.getTime(), and x / 1000
NumMinus(x, y) == IF x.t = "number" /\ y.t = "number" THEN Num(x.v - y.v) ELSE NaN
NumPerThousand(x) == IF x.t = "number" THEN Num(x.v \div 1000) ELSE NaN

\* deriveRoundTrips: a Date object, valid or not, counts as present
deriveRoundTrips(trades) ==
  [i \in 1..Len(trades) |->
     LET trade == trades[i]
         entry == Truthy(trade.entry_time)
         exit == Truthy(trade.exit_time)
     IN [entry_time |-> trade.entry_time, exit_time |-> trade.exit_time, pnl |-> trade.pnl,
         hold_seconds |-> IF entry /\ exit
                          THEN NumPerThousand(NumMinus(getTime(trade.exit_time),
                                                       getTime(trade.entry_time)))
                          ELSE Null]]

TradeTimes == {Undefined, Ts("text", 1), Ts("iso", 0), Ts("iso", 300), Ts("offset", 300)}
TradeCsvRows == [entry_time : TradeTimes, exit_time : TradeTimes, pnl : {WholeText(10)}]
TradeCsvs == {[ok |-> TRUE, rows |-> r] : r \in UNION {[1..n -> TradeCsvRows] : n \in 0..MaxTrades}}

InitTrips ==
  /\ InitSupervisor
  /\ call \in [fn : {"roundtrips"}, trades : TradeCsvs, done : {FALSE}, ret : {Undefined}]

\* GET /api/runs/:runId/roundtrips up to the response
RoundtripsCall ==
  /\ call.fn = "roundtrips" /\ ~call.done
  /\ call' = [call EXCEPT !.done = TRUE, !.ret = deriveRoundTrips(readTrades(call.trades))]
  /\ UNCHANGED <<now, up, activeBuilds, child, stream, files, used>>

NextTrips == RoundtripsCall
SpecTrips == InitTrips /\ [][NextTrips]_vars

\* Math.max(1, windowSeconds) * 1000 for the seconds option, in milliseconds
halfWindowMs(seconds) ==
  LET windowSeconds == IF seconds.t = "number" THEN seconds ELSE Num(60 * SCALE)
      atLeastOne == IF windowSeconds.v > SCALE THEN windowSeconds.v ELSE SCALE
  IN (atLeastOne * 1000) \div SCALE

\* filterByWindow: the rows with a timestamp that parses to within
\* halfWindowMs of the center
filterByWindow(rows, center, half) ==
  SelectSeq(rows, LAMBDA row :
    /\ "timestamp" \in DOMAIN row /\ Truthy(row.timestamp)
    /\ DateValid(row.timestamp)
    /\ LET d == (getTime(row.timestamp).v - getTime(center).v) \div SCALE
       IN (IF d < 0 THEN -d ELSE d) <= half)

\* readCpdWindow with a bound that leaves the edge of the window out
readCpdWindow_Exclusive(opts, extractorOk, equityCsv, tradesCsv) ==
  IF ~Truthy(opts.timestamp) THEN [ok |-> FALSE, error |-> "timestamp query parameter required"]
  ELSE IF ~extractorOk THEN [ok |-> FALSE, error |-> "cpd extractor"]
  ELSE IF ~DateValid(opts.timestamp) THEN [ok |-> FALSE, error |-> "invalid timestamp"]
  ELSE LET half == halfWindowMs(IF opts.seconds = Undefined THEN Num(60 * SCALE) ELSE opts.seconds)
           equity == IF equityCsv.ok THEN readEquity(equityCsv) ELSE <<>>
           trades == IF tradesCsv.ok THEN readTrades(tradesCsv) ELSE <<>>
       IN [ok |-> TRUE, equity |-> filterByWindow(equity, opts.timestamp, half - 1),
           trades |-> filterByWindow(trades, opts.timestamp, half - 1)]

\* readCpdWindow: opts, whether the extractor answers, and the two files
readCpdWindow(opts, extractorOk, equityCsv, tradesCsv) ==
  IF ~Truthy(opts.timestamp) THEN [ok |-> FALSE, error |-> "timestamp query parameter required"]
  ELSE IF ~extractorOk THEN [ok |-> FALSE, error |-> "cpd extractor"]
  ELSE IF ~DateValid(opts.timestamp) THEN [ok |-> FALSE, error |-> "invalid timestamp"]
  ELSE LET half == halfWindowMs(IF opts.seconds = Undefined THEN Num(60 * SCALE) ELSE opts.seconds)
           equity == IF equityCsv.ok THEN readEquity(equityCsv) ELSE <<>>
           trades == IF tradesCsv.ok THEN readTrades(tradesCsv) ELSE <<>>
       IN [ok |-> TRUE, equity |-> filterByWindow(equity, opts.timestamp, half),
           trades |-> filterByWindow(trades, opts.timestamp, half)]

WindowCenters == {Undefined, Ts("iso", 30), Ts("text", 1)}
WindowSeconds == {Undefined, Num(10 * SCALE), Num(50), DecStr(10 * SCALE)}
WindowEquityRows ==
  [timestamp : {Undefined, Ts("text", 1), Ts("iso", 20), Ts("iso", 31), Ts("iso", 35),
                Ts("offset", 40), Ts("iso", 45)},
   equity : {WholeText(10)}, incremental_pnl : {WholeText(10)}]
WindowEquity ==
  {NoArtifact} \cup {EquityCsv(TRUE, FALSE, r) : r \in UNION {[1..n -> WindowEquityRows] : n \in 0..MaxRows}}
WindowTradeRows ==
  [entry_time : {Ts("iso", 35), Ts("iso", 45)}, exit_time : {Ts("iso", 40)}, pnl : {WholeText(10)}]
WindowTrades ==
  {NoArtifact} \cup {[ok |-> TRUE, rows |-> r] : r \in UNION {[1..n -> WindowTradeRows] : n \in 0..MaxTrades}}

InitWindow ==
  /\ InitSupervisor
  /\ call \in [fn : {"window"}, opts : [timestamp : WindowCenters, seconds : WindowSeconds],
               extractorOk : BOOLEAN, equity : WindowEquity, trades : WindowTrades,
               done : {FALSE}, ret : {Undefined}]

WindowCall ==
  /\ call.fn = "window" /\ ~call.done
  /\ call' = [call EXCEPT !.done = TRUE,
                          !.ret = readCpdWindow(call.opts, call.extractorOk, call.equity, call.trades)]
  /\ UNCHANGED <<now, up, activeBuilds, child, stream, files, used>>

NextWindow == WindowCall
SpecWindow == InitWindow /\ [][NextWindow]_vars

\* ------------------------------------------------ restart by the operator
\* the operator stops the server process (the registry is a Map in the
\* process's memory): children that are alive go on without a supervisor
ServerStop ==
  /\ up
  /\ ServerDown
  /\ UNCHANGED <<now, files, used, call>>

\* the supervisor with restarts by the operator
NextRestart ==
  \/ Tick
  \/ \E j \in JobIds, o \in {"ok", "throw", "enoent"} : Start(j, o)
  \/ \E p \in Ids : StreamFlush(p)
  \/ \E p \in Ids, t \in ChunkTexts : ChildOutput(p, t)
  \/ \E p \in Ids : ProcExit(p)
  \/ \E p \in Ids, c \in ExitCodes \cup {-2} : ChildClose(p, c)
  \/ \E l \in KillInputs : KillBegin(l)
  \/ \E p \in Ids, a \in BOOLEAN : KillResume(p, a)
  \/ GetBuilds
  \/ ServerStop
  \/ ServerBoot
SpecRestart == Init /\ [][NextRestart]_vars

\* ------------------------------------------------- submissions of a run
\* a file of a run directory: NoFile (ENOENT), NoAccess (EACCES), or its text;
\* a text is JSON for a value, or no JSON at all
NoFile == [t |-> "absent"]
NoAccess == [t |-> "denied"]
Garbage == [t |-> "text", json |-> FALSE]
JsonText(value) == [t |-> "text", json |-> TRUE, v |-> value]
\* an object, as the set of its keys and the value of each
Obj(keys, val(_)) == [t |-> "object", fields |-> [k \in keys |-> val(k)]]
\* JSON.stringify of an object: the fields that are undefined are left out
JSONstringify(obj) ==
  JsonText([obj EXCEPT !.fields =
              [k \in {x \in DOMAIN obj.fields : obj.fields[x] # Undefined} |-> obj.fields[k]]])
\* JSON.parse(await fs.readFile(path)): the value, or the error thrown
readJson(file) ==
  CASE file = NoFile -> [ok |-> FALSE, code |-> "ENOENT"]
    [] file = NoAccess -> [ok |-> FALSE, code |-> "EACCES"]
    [] ~file.json -> [ok |-> FALSE, code |-> "none"]
    [] OTHER -> [ok |-> TRUE, v |-> file.v]

\* readSubmission: null when the file is absent, else what readJson gives
readSubmission(dir) ==
  LET r == readJson(dir.submission)
  IN IF ~r.ok /\ r.code = "ENOENT" THEN [ok |-> TRUE, v |-> Null] ELSE r

\* a value that an if takes as true, objects included
IsSet(x) == x.t = "object" \/ Truthy(x)

\* readSummary, were the failure of readSubmission to reach its caller
readSummary_Propagates(dir) ==
  LET summary == readJson(dir.summary)
      submission == readSubmission(dir)
  IN IF ~summary.ok \/ ~submission.ok THEN [ok |-> FALSE]
     ELSE IF IsSet(submission.v)
     THEN [ok |-> TRUE,
           v |-> [summary.v EXCEPT !.fields = MapSet(@, "dashboard_submission", submission.v)]]
     ELSE [ok |-> TRUE, v |-> summary.v]

\* readSummary: summary.json, with dashboard_submission set to the
\* submission when there is one
readSummary(dir) ==
  LET summary == readJson(dir.summary)
      read == readSubmission(dir)
      submission == IF read.ok THEN read.v ELSE Null
  IN IF ~summary.ok THEN [ok |-> FALSE]
     ELSE IF IsSet(submission)
     THEN [ok |-> TRUE,
           v |-> [summary.v EXCEPT !.fields = MapSet(@, "dashboard_submission", submission)]]
     ELSE [ok |-> TRUE, v |-> summary.v]

\* GET /api/runs/:runId/summary: 200 with the summary, 404 when the read fails
GetSummary(dir) ==
  LET summary == readSummary(dir)
  IN IF summary.ok THEN [status |-> 200, body |-> summary.v] ELSE [status |-> 404]

RunIds == {"demo_run_001", "run_b"}
\* POST /api/runs: the submission written to the run's dashboard_submission.json
postSubmission(runId, payload) ==
  JSONstringify(Obj({"run_id", "name", "tags", "metrics"},
                    LAMBDA k : IF k = "run_id" THEN LitStr(runId) ELSE payload[k]))

SummaryObj(runId) == Obj({"run_id", "ok"}, LAMBDA k : IF k = "run_id" THEN LitStr(runId) ELSE Bool(TRUE))
Payloads ==
  [name : {LitStr("Demo Run")},
   tags : {Undefined, LitStr("day,week")},
   metrics : {Undefined, Obj({"sharpe"}, LAMBDA k : Num(150))}]
SummaryFiles(runId) == {NoFile, Garbage, JsonText(SummaryObj(runId))}
SubmissionFiles == {NoFile, NoAccess, Garbage, JsonText(Null)}
RunDirs(runId) == [summary : SummaryFiles(runId), submission : SubmissionFiles]

InitRuns ==
  /\ InitSupervisor
  /\ \E a \in RunDirs("demo_run_001"), b \in RunDirs("run_b") :
       call = [fn |-> "runs", op |-> "none", run |-> "demo_run_001",
               disk |-> [r \in RunIds |-> IF r = "run_b" THEN b ELSE a], ret |-> Undefined]

\* a submission is posted for a run
PostRunsCall(runId, payload) ==
  /\ call.fn = "runs"
  /\ call' = [call EXCEPT !.op = "post", !.run = runId,
                          !.disk[runId].submission = postSubmission(runId, payload),
                          !.ret = [status |-> 201, run_id |-> runId]]
  /\ UNCHANGED <<now, up, activeBuilds, child, stream, files, used>>

\* the summary of a run is read
GetSummaryCall(runId) ==
  /\ call.fn = "runs"
  /\ call' = [call EXCEPT !.op = "summary", !.run = runId, !.ret = GetSummary(call.disk[runId])]
  /\ UNCHANGED <<now, up, activeBuilds, child, stream, files, used>>

NextRuns ==
  \/ \E r \in RunIds, p \in Payloads : PostRunsCall(r, p)
  \/ \E r \in RunIds : GetSummaryCall(r)
SpecRuns == InitRuns /\ [][NextRuns]_vars

\* ------------------------------------------------ the whole start request
\* the bundle_release definition, with the fields availability reads
bundle_release == [id |-> "bundle_release", requiredScripts |-> <<"scripts/bundle_release.py">>]
\* BUILD_DEFINITIONS[jobId] with bundle_release among the definitions
LookupJob(key) == IF key = "bundle_release" THEN bundle_release ELSE Lookup(key)

\* loadLatestPipelineRun: the run the marker file names when its directory
\* exists, else null (marker "": the file is absent or empty)
loadLatestPipelineRun(disk) ==
  IF disk.marker # "" /\ disk.marker \in disk.dirs THEN LitStr(disk.marker) ELSE Null

\* resolveTrackBBundleRun: the run directory, or the error thrown
resolveTrackBBundleRun(input, disk) ==
  LET candidate == IF input = Undefined THEN "" ELSE input.lit
  IN IF candidate = "" \/ candidate = "latest"
     THEN IF loadLatestPipelineRun(disk) = Null
          THEN [ok |-> FALSE, message |-> "No pipeline demo run recorded yet"]
          ELSE [ok |-> TRUE, v |-> loadLatestPipelineRun(disk)]
     ELSE IF candidate \notin disk.dirs
          THEN [ok |-> FALSE, message |-> "Run directory not found"]
          ELSE [ok |-> TRUE, v |-> LitStr(candidate)]

\* bundle_release.buildCommand: the details, or the error it throws with
\* statusCode 400
bundle_release_buildCommand(params, disk) ==
  LET runParam == IF params.run = Undefined \/ params.run = LitStr("") THEN LitStr("latest")
                  ELSE params.run
      resolvedRun == resolveTrackBBundleRun(runParam, disk)
  IN IF ~resolvedRun.ok
     THEN [t |-> "throw", statusCode |-> 400, message |-> resolvedRun.message]
     ELSE [t |-> "details", cmd |-> <<"python", "scripts/bundle_release.py", "--run", resolvedRun.v>>]

\* def.buildCommand ? def.buildCommand(params) : null
renderDetails(def, params, disk) ==
  IF "inherited" \in DOMAIN def THEN [t |-> "null"]
  ELSE IF def.id = "bundle_release" THEN bundle_release_buildCommand(params, disk)
  ELSE [t |-> "details", cmd |-> <<"python", def.requiredScripts[1]>>]

\* POST /api/builds/start up to the spawn: the response it sends, or status 0
\* when it goes on to open the log and spawn
startPlan(jobId, params, disk) ==
  IF jobId = Undefined \/ jobId = LitStr("") \/ LookupJob(jobId.lit) = Undefined
  THEN [status |-> 400, error |-> "Unknown build job"]
  ELSE LET def == LookupJob(jobId.lit)
           availability == definitionAvailability(def, disk.scripts)
           details == renderDetails(def, params, disk)
       IN IF ~availability.enabled THEN [status |-> 400, error |-> "disabled"]
          ELSE IF details.t = "throw" THEN [status |-> 500, error |-> details.message]
          ELSE IF details.t = "null" \/ details.cmd = <<>>
          THEN [status |-> 400, error |-> "Invalid build command"]
          ELSE [status |-> 0, error |-> ""]

\* the start handler, were it to open the log before it checks the request
StartRequest_LogFirst(jobId, params, disk) ==
  LET plan == startPlan(jobId, params, disk)
  IN IF plan.status = 0 THEN \E outcome \in {"ok", "throw", "enoent"} : Start(jobId.lit, outcome)
     ELSE /\ up /\ jobId # Undefined
          /\ files' = AppendLines(files, [stamp |-> formatStamp(now), job |-> jobId.lit],
                                  <<TxtStart>>, now)
          /\ call' = [fn |-> "start", jobId |-> jobId, status |-> plan.status,
                      error |-> plan.error]
          /\ UNCHANGED <<now, up, activeBuilds, child, stream, used>>

\* POST /api/builds/start, the whole handler: a request that is turned down
\* is answered (the answer is kept in call), the others go on to Start, where
\* the spawn has one of its outcomes
StartRequest(jobId, params, disk) ==
  LET plan == startPlan(jobId, params, disk)
  IN IF plan.status = 0 THEN \E outcome \in {"ok", "throw", "enoent"} : Start(jobId.lit, outcome)
     ELSE /\ up
          /\ call' = [fn |-> "start", jobId |-> jobId, status |-> plan.status,
                      error |-> plan.error]
          /\ UNCHANGED <<now, up, activeBuilds, child, stream, files, used>>

\* what a start request can carry and what the disk can hold
RequestJobIds == {Undefined} \cup {LitStr(k) : k \in {"autotune", "bundle_release", "constructor", "nosuch"}}
AllScripts == {"scripts/autotune_and_run.py", "scripts/bundle_release.py"}
RequestParams == [run : {Undefined, LitStr("latest"), LitStr("runs/x")}]
\* scripts present or not; the marker file empty, naming a directory that is
\* gone, naming one that exists; the run directory runs/x present or not
RequestDisks ==
  {[scripts |-> {}, marker |-> "", dirs |-> {}],
   [scripts |-> AllScripts, marker |-> "", dirs |-> {}],
   [scripts |-> AllScripts, marker |-> "runs/latest1", dirs |-> {}],
   [scripts |-> AllScripts, marker |-> "runs/latest1", dirs |-> {"runs/latest1"}],
   [scripts |-> AllScripts, marker |-> "", dirs |-> {"runs/x"}]}

\* the supervisor with whole start requests
NextStart ==
  \/ Tick
  \/ \E j \in RequestJobIds, p \in RequestParams, d \in RequestDisks : StartRequest(j, p, d)
  \/ \E p \in Ids : StreamFlush(p)
  \/ \E p \in Ids : ProcExit(p)
  \/ \E p \in Ids, c \in ExitCodes \cup {-2} : ChildClose(p, c)
SpecStart == Init /\ [][NextStart]_vars

\* ---------------------------------------------------------------- claims
\* the registry holds the entry made by start attempt p
HasEntry(p) == child[p].log \in DOMAIN activeBuilds /\ activeBuilds[child[p].log] = p
\* the file's text holds a failure marker (the only chunk with one is TxtTraceback)
HasMarkerLine(name) == \E i \in 1..Len(files[name].lines) : files[name].lines[i] = TxtTraceback
Stale(name) == now - files[name].mtime >= FRESH_MS

\* C1: a log identity that is a key of the registry and whose file exists is
\* listed as running and active, whatever its text and its age
C1_ActiveListedRunning ==
  up => \A n \in DOMAIN activeBuilds \cap DOMAIN files :
          listBuilds[n].status = "running" /\ listBuilds[n].active
C1_Witness ==
  up /\ \E n \in DOMAIN activeBuilds \cap DOMAIN files :
          HasMarkerLine(n) /\ Stale(n) /\ listBuilds[n].status = "running"

\* C2 as claimed: once the exit handler has run and the log holds no failure
\* marker, every listing reports success, the one right after the exit included
C2_SuccessRightAfterExit ==
  up => \A p \in Ids :
          child[p].st = "closed" /\ child[p].log \in DOMAIN files /\ ~HasMarkerLine(child[p].log)
          => listBuilds[child[p].log].status = "success"
\* C2 amended: once the exit handler has run, while the log identity is not in
\* the registry and the log holds no failure marker, a listing reports success
\* when the file was last modified at least FRESH_MS ago and running before
C2_SuccessAfterWindow ==
  up => \A p \in Ids :
          child[p].st = "closed" /\ child[p].log \in DOMAIN files /\ ~HasMarkerLine(child[p].log)
          /\ child[p].log \notin DOMAIN activeBuilds
          => listBuilds[child[p].log].status = IF Stale(child[p].log) THEN "success" ELSE "running"
C2_Witness ==
  up /\ \E p \in Ids :
          child[p].st = "closed" /\ child[p].log \in DOMAIN files /\ ~HasMarkerLine(child[p].log)
          /\ child[p].log \notin DOMAIN activeBuilds /\ Stale(child[p].log)
          /\ listBuilds[child[p].log].status = "success"

\* C4 as claimed: a build whose start was answered 200 and whose process runs
\* is in every listing from then on, with the status running
C4_StartedListedRunning ==
  up => \A p \in Ids :
          child[p].st = "running" /\ child[p].http = 200
          => child[p].log \in DOMAIN files /\ listBuilds[child[p].log].status = "running"

\* C5 as claimed: two accepted starts never get the same log name
C5_DistinctLogNames ==
  \A p, q \in Ids :
     p # q /\ child[p].http = 200 /\ child[q].http = 200 => child[p].log # child[q].log

\* C6 as claimed: the registry holds an entry for a log name exactly when a
\* process spawned for it has not had its exit handler run
C6_RegistryExact ==
  up => /\ \A p \in Ids : child[p].st \in {"running", "exited"} => HasEntry(p)
        /\ \A n \in DOMAIN activeBuilds : child[activeBuilds[n]].st \in {"running", "exited"}

\* C7: the registry's key set changes only when a start inserts its own key (a
\* start whose spawn fails asynchronously inserts and removes it) and when a
\* child's exit handler removes that child's key; kill and list steps keep it
C7_KeySetFrame ==
  [][ up /\ up' /\ DOMAIN activeBuilds' # DOMAIN activeBuilds =>
        \/ \E p \in Ids :
             /\ child[p].st = "none" /\ child'[p].st \in {"running", "errored"}
             /\ \/ DOMAIN activeBuilds' = DOMAIN activeBuilds \cup {child'[p].log}
                \/ child'[p].st = "errored"
                   /\ DOMAIN activeBuilds' = DOMAIN activeBuilds \ {child'[p].log}
        \/ \E p \in Ids :
             /\ child[p].st \in {"exited", "errored"} /\ child'[p].st = "closed"
             /\ DOMAIN activeBuilds' = DOMAIN activeBuilds \ {child[p].log} ]_vars
C7_Witness ==
  up /\ \E p \in Ids : HasEntry(p) /\ child[p].killReq /\ child[p].kreq = 0

\* C8 as claimed: kill answers 404 only when the log name has no entry or its
\* process has ended, so a build whose process runs is never refused with 404
C8_RunningNotRefused ==
  up => \A n \in DOMAIN activeBuilds :
          child[activeBuilds[n]].st = "running" => KillEarlyStatus(n) # 404

\* C9 as claimed: a kill request is answered ok only when the process it names
\* has not ended, the process ending while the cancel line is appended included
C9_OkOnlyForLive ==
  [][ \A p \in Ids : up' /\ child'[p].kreq < child[p].kreq => child[p].st = "running" ]_vars

\* C10: a kill that passes the entry test records its timestamp on the entry;
\* while a build's entry is in the registry and a kill has recorded its
\* timestamp there, every listing of that build shows kill_requested_at with
\* the status running; and an entry whose process has ended leaves the registry
C10_KillStampThenRemoval ==
  /\ [][ \A p \in Ids : up' /\ child'[p].kreq < child[p].kreq => child'[p].killReq ]_vars
  /\ [](up => \A n \in DOMAIN activeBuilds \cap DOMAIN files :
                child[activeBuilds[n]].killReq
                => listBuilds[n].kill_requested_at /\ listBuilds[n].status = "running")
  /\ \A p \in Ids : (child[p].st = "exited" /\ HasEntry(p)) ~> ~HasEntry(p)
C10_Witness ==
  up /\ \E p \in Ids :
          /\ HasEntry(p) /\ child[p].killReq /\ child[p].killed /\ child[p].st = "exited"
          /\ child[p].log \in DOMAIN files /\ listBuilds[child[p].log].kill_requested_at

\* the pieces that hold a failure marker, each at its first character
MarkerPieces == {TxtTraceback, TxtUpperTraceback, TxtErrorColon, TxtLowerError, TxtException}
Joined(c) == c.fill = 0 /\ c.head = TxtTrace /\ c.tail = TxtBack
MarkerAnywhere(c) == c.head \in MarkerPieces \/ c.tail \in MarkerPieces \/ Joined(c)
MarkerInWindow(c) ==
  \/ c.tail \in MarkerPieces \/ Joined(c)
  \/ c.head \in MarkerPieces /\ Len(c.head) + c.fill + Len(c.tail) <= MAX_CONTENT
ByAge(c) == IF c.nowMs - c.mtimeMs < FRESH_MS THEN "running" ELSE "success"

\* C3 as claimed: failed when the text holds a marker anywhere, else running
\* inside the freshness window, else success
C3_MarkerAnywhereFails ==
  call.fn = "inferStatus" /\ call.ret # "?"
  => call.ret = IF MarkerAnywhere(call) THEN "failed" ELSE ByAge(call)
\* C3 amended: failed when the last MAX_CONTENT characters of the text hold a
\* marker in any letter case, whatever the age and the EXIT line; else running
\* when now minus the modification time is below FRESH_MS; else success
C3_MarkerInWindowFails ==
  call.fn = "inferStatus" /\ call.ret # "?"
  => call.ret = IF MarkerInWindow(call) THEN "failed" ELSE ByAge(call)
C3_Witness ==
  /\ call.fn = "inferStatus" /\ call.ret = "failed"
  /\ call.head = TxtUpperTraceback /\ call.fill > 0 /\ call.tail = TxtExit0
  /\ call.nowMs - call.mtimeMs < FRESH_MS

\* C11: a kill request naming a logfile that is not a key of the registry is
\* answered 404 and changes nothing: the registry, every log file, every entry's
\* cancellation timestamp and every child's signal state stay as they were
C11_KillNoEntryNoEffect ==
  [][ call' # call /\ call'.fn = "kill" /\ call'.logfile # NoLogfile
      /\ call'.logfile \notin DOMAIN activeBuilds
      => /\ call'.status = 404
         /\ activeBuilds' = activeBuilds /\ files' = files /\ child' = child ]_vars
C11_Witness ==
  /\ up /\ call.fn = "kill" /\ call.status = 404
  /\ call.logfile \notin DOMAIN activeBuilds /\ call.logfile \in DOMAIN files
  /\ \E p \in Ids : child[p].log = call.logfile /\ child[p].st = "closed"

\* C12 as claimed: while a process that was sent SIGTERM by a kill is still
\* running, the supervisor has a step that sends it SIGKILL
C12_EscalationPossible ==
  up => \A p \in Ids :
          child[p].st = "running" /\ child[p].sig = "SIGTERM" /\ child[p].kreq = 0
          => ENABLED (Next /\ child'[p].sig = "SIGKILL")

\* no other start attempt got the log name of p
OwnLog(p) == \A q \in Ids \ {p} : child[q].st = "none" \/ child[q].log # child[p].log

\* C13 as claimed: once the exit or error handler has ended a job's log stream
\* and the stream has closed the file, the job's log file never changes again
C13_NoWriteAfterClose ==
  [][ \A p \in Ids :
        /\ up /\ child[p].st \in {"closed", "errored", "nospawn"}
        /\ stream[p].fd = "closed" /\ OwnLog(p) /\ child[p].log \in DOMAIN files
        => files'[child[p].log] = files[child[p].log] ]_vars

IsExitLine(l) == l \in {TxtExit0, TxtExit1, TxtExitNeg}
ExitCount(lines) == Cardinality({i \in 1..Len(lines) : IsExitLine(lines[i])})

\* C14 as claimed: the START line is the first line of a job's log, and once
\* the process has exited and the stream has closed the file, the log holds
\* exactly one EXIT line, which is its last line
C14_StartFirstExitLast ==
  up => \A p \in Ids :
          OwnLog(p) /\ child[p].st # "none" /\ child[p].log \in DOMAIN files
          => LET lines == files[child[p].log].lines
             IN /\ lines[1] = TxtStart
                /\ child[p].st = "closed" /\ stream[p].fd = "closed"
                   /\ (\A i \in 1..Len(lines) : lines[i] # TxtErrorChild)
                   => ExitCount(lines) = 1 /\ IsExitLine(lines[Len(lines)])

\* C15 as claimed: a start attempt whose spawn failed, synchronously or with an
\* asynchronous 'error' event, was answered 500
C15_SpawnFailureIs500 ==
  \A p \in Ids : child[p].st \in {"nospawn", "errored"} => child[p].http = 500

\* the supplied value is a number, or the decimal text of one
SuppliedNumber(x) == x.t = "number" \/ IsDec(x)
Rendered == call.fn = "buildCommand" /\ call.done

\* C19 as claimed: when the value supplied for a number field is not a number
\* (text that is no numeral, empty text, null, a boolean), the argument in the
\* command is the decimal text of the field's default and the public parameter
\* is the default (for limit, whose default 0 means none: no argument at all)
C19_NonNumberGivesDefault ==
  Rendered /\ ~SuppliedNumber(call.value) /\ call.value # Undefined
  => LET f == call.field
     IN IF f = "limit"
        THEN f \notin DOMAIN call.ret.cmd /\ call.ret.publicParams[f] = Undefined
        ELSE /\ call.ret.cmd[f] = DecStr(FieldDefault[f])
             /\ call.ret.publicParams[f] = Num(FieldDefault[f])

\* the floor C20 names for a field; 0 for those it leaves open
FieldFloor ==
  [thr |-> 0, max_delay |-> 0, n_estimators |-> 10 * SCALE, learning_rate |-> 0,
   max_depth |-> 0, max_samples |-> 0, window |-> 2 * SCALE, n_states |-> 2 * SCALE, limit |-> 0]

\* C20 as claimed: for a supplied number, every number argument in the command
\* is the decimal text of a number at or above the field's floor
C20_ArgumentsAboveFloor ==
  Rendered /\ SuppliedNumber(call.value)
  => \A f \in DOMAIN call.ret.cmd :
                IsDec(call.ret.cmd[f]) /\ call.ret.cmd[f].dec >= FieldFloor[f]

\* C16 as claimed: a start request whose job id is missing or is not a key of
\* the registry is answered 400 as an unknown job, and no command is rendered
C16_UnknownJob400 ==
  call.fn = "start" /\ call.done
  /\ (call.jobId = Undefined \/ call.jobId.lit \notin DOMAIN BUILD_DEFINITIONS)
  => call.ret.status = 400 /\ call.ret.error = "Unknown build job" /\ ~call.ret.rendered

\* the required scripts of definition k that are not on the disk
Absent(k, disk) ==
  {BUILD_DEFINITIONS[k].requiredScripts[i] : i \in 1..Len(BUILD_DEFINITIONS[k].requiredScripts)} \ disk
ListSet(list) == {list[i] : i \in 1..Len(list)}
Serialized == call.fn = "definitions" /\ call.done

\* C17: a definition with a required script absent is serialized with enabled
\* false, a missing list that holds exactly the absent scripts, each once, and
\* a reason; a definition with every script present is serialized enabled with
\* an empty missing list
C17_AvailabilitySerialized ==
  Serialized => \A k \in DOMAIN BUILD_DEFINITIONS :
    LET d == call.ret[k]
    IN IF Absent(k, call.disk) # {}
       THEN /\ d.enabled = FALSE /\ d.disabled_reason # Null
            /\ ListSet(d.missing_scripts) = Absent(k, call.disk)
            /\ Len(d.missing_scripts) = Cardinality(Absent(k, call.disk))
       ELSE d.enabled = TRUE /\ d.missing_scripts = <<>>
C17_Witness ==
  /\ Serialized
  /\ Cardinality(Absent("lambda_sweep", call.disk)) = 1 /\ Absent("autotune", call.disk) = {}
  /\ ~call.ret["lambda_sweep"].enabled /\ call.ret["autotune"].enabled

\* C18: a start request for a job of the registry is rejected as disabled, with
\* the missing list, exactly when the serialized definition of the job over the
\* same disk is not enabled
C18_DisabledIffSerializedDisabled ==
  call.fn = "start" /\ call.done /\ call.jobId # Undefined
  /\ call.jobId.lit \in DOMAIN BUILD_DEFINITIONS
  => LET d == serializeDefinitions(call.disk)[call.jobId.lit]
     IN /\ (call.ret.status = 400 /\ call.ret.error = "disabled") <=> ~d.enabled
        /\ ~d.enabled => call.ret.missing_scripts = d.missing_scripts /\ ~call.ret.rendered
        /\ d.enabled => call.ret.status = 0
C18_Witness ==
  /\ call.fn = "start" /\ call.done /\ call.jobId = LitStr("lambda_sweep")
  /\ call.ret.status = 400 /\ call.ret.error = "disabled" /\ Len(call.ret.missing_scripts) = 1


Listed == call.fn = "builds" /\ call.done
\* the positions of the directory that are log files
LogFiles(entries) == {i \in 1..Len(entries) : entries[i].isFile /\ entries[i].log}

\* C21: the listing holds exactly one build per log file of the directory, in
\* descending order of started_at, and every build without started_at comes
\* after every build that has one
C21_OnePerLogSortedUnsetLast ==
  Listed =>
    LET ret == call.ret
    IN /\ Len(ret) = Cardinality(LogFiles(call.entries))
       /\ {ret[i].logfile : i \in 1..Len(ret)} = LogFiles(call.entries)
       /\ \A i, j \in 1..Len(ret) :
            i < j /\ ret[i].started_at # Null /\ ret[j].started_at # Null
            => DateParse(ret[i].started_at) >= DateParse(ret[j].started_at)
       /\ \A i, j \in 1..Len(ret) :
            ret[i].started_at = Null /\ ret[j].started_at # Null => j < i


\* C22: a log request that names a file answers 404 when the file does not
\* exist, and answers with the file's raw text when it does
C22_MissingLogIs404 ==
  call.fn = "logs" /\ call.done /\ call.file # Undefined =>
    IF basename(call.file) \in DOMAIN call.disk
    THEN call.ret.status = 200 /\ call.ret.body = call.disk[basename(call.file)]
    ELSE call.ret.status = 404


\* a line the scan takes as a trial start, and one it takes as a summary (a
\* line that matches startRe is a trial start whatever else it matches)
TrialStart(line) == line.start
TrialSummary(line) == ~line.start /\ line.summary
StartsBefore(i) == Cardinality({j \in 1..(i - 1) : TrialStart(call.lines[j])})

\* C23: a scan step pushes a row exactly when its line is a summary and a
\* trial is open; the row goes to the end of the rows, the rows before it stay
\* as they were, and the scan is then between trials; between trials a line
\* that is no trial start leaves rows and state alone; the rows never
\* outnumber the trial starts read
C23_RowExactlyOnSummaryOfOpenTrial ==
  [][call.fn = "autotune" =>
       LET line == call.lines[call.i]
           open == call.st.current # Null
       IN /\ (call.st'.rows # call.st.rows) <=> (open /\ TrialSummary(line))
          /\ open /\ TrialSummary(line) =>
               /\ Len(call.st'.rows) = Len(call.st.rows) + 1
               /\ SubSeq(call.st'.rows, 1, Len(call.st.rows)) = call.st.rows
               /\ call.st'.rows[Len(call.st'.rows)].run_id = call.i
               /\ call.st'.current = Null
          /\ ~open /\ ~TrialStart(line) =>
               call.st'.rows = call.st.rows /\ call.st'.current = Null
          /\ Len(call.st'.rows) <= StartsBefore(call.i')]_vars
C23_Witness ==
  /\ call.fn = "autotune" /\ call.i > 3
  /\ TrialStart(call.lines[1]) /\ TrialSummary(call.lines[2]) /\ TrialSummary(call.lines[3])
  /\ Len(call.st.rows) = 1 /\ call.st.rows[1].run_id = 2

\* the last line numbered in lo..hi that is no trial start and has the marker, or 0
LastWith(marker, lo, hi) ==
  LET S == {j \in lo..hi : ~TrialStart(call.lines[j]) /\ call.lines[j][marker]}
  IN IF S = {} THEN 0 ELSE CHOOSE j \in S : \A k \in S : k <= j

\* C24: the scan can always take its next line; every row is made of one trial
\* start and the lines after it: no trial start lies between the row's start
\* and its summary, and its load statistics and run path are those of the last
\* such line after its own start (unset when there is none)
C24_RestartDiscardsOpenTrial ==
  call.fn = "autotune" =>
    /\ call.i <= Len(call.lines) => ENABLED ScanLine
    /\ \A n \in 1..Len(call.st.rows) :
         LET r == call.st.rows[n]
         IN /\ TrialStart(call.lines[r.start_ts]) /\ r.start_ts < r.run_id
            /\ \A j \in (r.start_ts + 1)..r.run_id : ~TrialStart(call.lines[j])
            /\ r.bars = LastWith("loaded", r.start_ts + 1, r.run_id)
            /\ r.run_path = LastWith("wrote", r.start_ts + 1, r.run_id)
C24_Witness ==
  /\ call.fn = "autotune" /\ call.i > Len(call.lines) /\ Len(call.lines) = 4
  /\ TrialStart(call.lines[1]) /\ call.lines[2].loaded /\ ~TrialStart(call.lines[2])
  /\ ~TrialSummary(call.lines[2])
  /\ TrialStart(call.lines[3]) /\ TrialSummary(call.lines[4])
  /\ Len(call.st.rows) = 1 /\ call.st.rows[1].start_ts = 3 /\ call.st.rows[1].bars = 0


RegimeDone == call.fn = "regime" /\ call.done
\* both samples have an equity row of their instant, in order, and the file
\* has the incremental_pnl column
MatchedIncrements ==
  /\ RegimeDone /\ call.models.ok /\ Len(call.models.items) = 2
  /\ call.equity.ok /\ call.equity.header.incremental_pnl /\ Len(call.equity.rows) = 2
  /\ \A i \in 1..2 :
       /\ call.models.items[i].timestamp # Undefined /\ DateValid(call.models.items[i].timestamp)
       /\ call.equity.rows[i].timestamp # Undefined /\ DateValid(call.equity.rows[i].timestamp)
       /\ DateISO(call.models.items[i].timestamp) = DateISO(call.equity.rows[i].timestamp)
  /\ call.equity.rows[1].timestamp # call.equity.rows[2].timestamp

\* C25: with every sample matched by an equity row that carries incremental
\* P&L x_i, total P&L is x_1 + x_2, each regime's P&L is the sum of w_i * x_i
\* over its weights, and pnl_share is the regime's P&L over the total (for
\* weights 0.7 / 0.3 and increments 10 and 20: 30, 13 and 13/30)
C25_IncrementsAttributed ==
  MatchedIncrements =>
    LET x == [i \in 1..2 |-> FNumber(call.equity.rows[i].incremental_pnl)]
        tl == call.ret.timeline
        total == FAdd(x[1], x[2])
        pnlBk == FAdd(FMul(x[1], tl[1].breakout), FMul(x[2], tl[2].breakout))
        pnlMr == FAdd(FMul(x[1], tl[1].mean_revert), FMul(x[2], tl[2].mean_revert))
    IN /\ call.ret.total.pnl = total
       /\ call.ret.regimes[1].pnl = pnlMr /\ call.ret.regimes[2].pnl = pnlBk
       /\ call.ret.regimes[1].pnl_share = FDiv(pnlMr, total)
       /\ call.ret.regimes[2].pnl_share = FDiv(pnlBk, total)

\* the sample the timeline entry numbered n was made from
TimelineSample(n) ==
  LET idx == {i \in 1..Len(call.models.items) : call.models.items[i].timestamp # Undefined}
  IN call.models.items[CHOOSE i \in idx : Cardinality({j \in idx : j <= i}) = n]
\* the pair of weights the rule gives for the raw breakout and mean-reversion
RulePair(bk, mr) ==
  LET b == IF bk # Undefined THEN bk ELSE IF mr # Undefined THEN FSub(F(1), mr) ELSE F(0)
      m == IF mr # Undefined THEN mr ELSE IF bk # Undefined THEN FSub(F(1), bk) ELSE F(1)
  IN IF FGt0(FAdd(b, m)) THEN <<FDiv(b, FAdd(b, m)), FDiv(m, FAdd(b, m))>> ELSE <<F(0), F(1)>>

\* C26: every timeline entry holds the pair the rule gives (complement of the
\* one weight present, {0, 1} when neither is, division by the sum, {0, 1} for
\* a sum that is not positive), and its two weights add up to exactly 1
C26_WeightsSumToOne ==
  RegimeDone =>
    \A n \in 1..Len(call.ret.timeline) :
      LET e == call.ret.timeline[n]
          s == TimelineSample(n)
      IN /\ <<e.breakout, e.mean_revert>> = RulePair(s.breakout, s.mean_reversion)
         /\ FAdd(e.breakout, e.mean_revert) = F(1)


\* the weight series is unavailable, is no list, or is empty
NoSamples == call.fn = "regime" /\ (~call.models.ok \/ ~call.models.array \/ call.models.items = <<>>)
\* the number the summary's total_pnl stands for, 0 for none
SummaryTotal ==
  IF ~call.summary.ok THEN F(0)
  ELSE LET v == call.summary.json.total_pnl
       IN IF v.t = "float" THEN v
          ELSE IF v.t = "string" /\ "whole" \in DOMAIN v THEN F(v.whole) ELSE F(0)

C28_HoldSecondsOrNull ==
  call.fn = "roundtrips" /\ call.done =>
    /\ Len(call.ret) = Len(call.trades.rows)
    /\ \A i \in 1..Len(call.ret) :
         LET row == call.trades.rows[i]
             parses(x) == x # Undefined /\ DateValid(x)
         IN IF parses(row.entry_time) /\ parses(row.exit_time)
            THEN call.ret[i].hold_seconds = Num((row.exit_time.id - row.entry_time.id) * SCALE)
            ELSE call.ret[i].hold_seconds = Null

WindowDone == call.fn = "window" /\ call.done /\ call.ret.ok
\* the half-width in milliseconds as the seconds option states it (60 s when
\* the option is missing)
StatedHalfMs ==
  LET s == call.opts.seconds
  IN IF s = Undefined THEN 60000 ELSE IF s.t = "number" THEN s.v * 10 ELSE s.dec * 10
\* the half-width the window is cut with: a number below 1 counts as 1 second,
\* a value that is no number as 60 seconds
AppliedHalfMs ==
  LET s == call.opts.seconds
  IN IF s = Undefined \/ s.t # "number" THEN 60000 ELSE IF s.v < SCALE THEN 1000 ELSE s.v * 10
\* the timestamp parses and lies within half milliseconds of the center
InWindow(ts, half) ==
  /\ ts # Undefined /\ DateValid(ts)
  /\ (ts.id - call.opts.timestamp.id) * 1000 <= half
  /\ (call.opts.timestamp.id - ts.id) * 1000 <= half
EquityKept(half) ==
  LET rows == call.equity.rows
      kept == SelectSeq([i \in 1..Len(rows) |-> i], LAMBDA i : InWindow(rows[i].timestamp, half))
  IN [n \in 1..Len(kept) |-> rows[kept[n]].timestamp]
EquityReturned == [n \in 1..Len(call.ret.equity) |-> call.ret.equity[n].timestamp]

C30_TradesFilteredLikeEquity ==
  WindowDone /\ call.trades.ok =>
    LET rows == call.trades.rows
    IN /\ \A i \in 1..Len(rows) :
            InWindow(rows[i].entry_time, AppliedHalfMs)
            => \E n \in 1..Len(call.ret.trades) : call.ret.trades[n].entry_time = rows[i].entry_time
       /\ \A n \in 1..Len(call.ret.trades) :
            InWindow(call.ret.trades[n].entry_time, AppliedHalfMs)


\* C31: window correlation with a center that parses returns a result
\* whatever the state of the other artifacts, with equity and trades empty
\* when their files cannot be read and a missing half-width taken as 60
\* seconds
C31_FailsOnlyOnUnparsableCenter ==
  call.fn = "window" /\ call.done /\ call.opts.timestamp # Undefined
  /\ DateValid(call.opts.timestamp) =>
    /\ call.ret.ok
    /\ ~call.equity.ok => call.ret.equity = <<>>
    /\ ~call.trades.ok => call.ret.trades = <<>>
    /\ call.opts.seconds = Undefined /\ call.equity.ok => EquityReturned = EquityKept(60000)


\* the process of start attempt p outlived the server that started it, and a
\* server is running again
Orphaned(p) == up /\ child[p].st = "orphan"
\* C32: after a restart, a job whose process is still alive is no longer
\* active: a kill on its logfile answers 404, and its build in the listing is
\* not active and has the status inferred from the log alone
C32_RestartLosesActive ==
  \A p \in Ids : Orphaned(p) =>
    /\ KillEarlyStatus(child[p].log) = 404
    /\ child[p].log \in DOMAIN files =>
         /\ ~listBuilds[child[p].log].active
         /\ listBuilds[child[p].log].status
              = inferStatus(Concat(files[child[p].log].lines), files[child[p].log].mtime, now)


\* the submission persisted for run r, or Null when the run has none: the
\* object its dashboard_submission.json holds
Persisted(r) ==
  LET f == call.disk[r].submission
  IN IF f.t = "text" /\ f.json /\ f.v.t = "object" THEN f.v ELSE Null
\* the summary the run's summary.json holds
SummaryOf(r) == call.disk[r].summary.v
SummaryReadable(r) == call.disk[r].summary.t = "text" /\ call.disk[r].summary.json
\* the step is a summary read of run r
SummaryRead(r) == call.fn = "runs" /\ call'.op = "summary" /\ call'.run = r
StartRejected == call'.fn = "start" /\ call' # call
\* C34: a start request turned down before the spawn (unknown job, disabled
\* job, invalid command, a builder that throws) leaves the log directory, the
\* log streams, the processes and the registry as they were
C34_RejectedStartChangesNothing ==
  [][StartRejected => UNCHANGED <<files, stream, child, activeBuilds>>]_vars
\* a request was turned down while a job was running and its log existed
C34_Witness ==
  /\ call.fn = "start" /\ call.status = 400 /\ call.error = "disabled"
  /\ activeBuilds # <<>> /\ files # <<>>


\* the builder of bundle_release could not resolve its run directory
RunUnresolved ==
  /\ call.fn = "start" /\ call.jobId = LitStr("bundle_release")
  /\ call.error \in {"No pipeline demo run recorded yet", "Run directory not found"}
\* C37: a bundle_release start whose run directory cannot be resolved is
\* answered with status 400, the status the builder's error carries
C37_UnresolvedRunIs400 == RunUnresolved => call.status = 400


\* the sum of a sequence of numbers, added from the left starting at 0
RECURSIVE FSumFrom(_, _)
FSumFrom(acc, xs) == IF xs = <<>> THEN acc ELSE FSumFrom(FAdd(acc, Head(xs)), Tail(xs))
FSum(xs) == FSumFrom(F(0), xs)
\* the equity file gives levels only: it has the equity column and not the
\* incremental_pnl column, and every row has a timestamp and a number
LevelsOnly ==
  /\ RegimeDone /\ call.models.ok /\ call.models.items # <<>>
  /\ call.equity.ok /\ call.equity.header.equity /\ ~call.equity.header.incremental_pnl
  /\ \A i \in 1..Len(call.equity.rows) :
       /\ call.equity.rows[i].timestamp # Undefined
       /\ FIsFinite(FNumber(call.equity.rows[i].equity))
\* the timestamp of a sample and of an equity row in the form they are
\* matched in: the ISO form when it parses, else the text (of a row: with its
\* first space replaced by T)
SampleKey(ts) == IF DateValid(ts) THEN DateISO(ts) ELSE ts
\* the increment of equity row i: the step from the level before it, 0 for
\* the first row
LevelStep(i) ==
  IF i = 1 THEN F(0)
  ELSE FSub(FNumber(call.equity.rows[i].equity), FNumber(call.equity.rows[i - 1].equity))
\* the rows that match the sample's timestamp
RowsAt(ts) ==
  {i \in 1..Len(call.equity.rows) : rowKey(call.equity.rows[i].timestamp) = SampleKey(ts)}
\* the increment the levels give for a sample: that of the last row matching
\* it, 0 when no row matches
IncrementFor(ts) ==
  IF RowsAt(ts) = {} THEN F(0)
  ELSE LevelStep(CHOOSE i \in RowsAt(ts) : \A j \in RowsAt(ts) : j <= i)
\* C35: with levels only, a sample matched by row i gets e_i - e_(i-1), or 0
\* for the first row; a sample no row matches gets 0, adds nothing to total
\* P&L or to either regime's P&L, and still counts as an observation and in
\* the time shares
C35_LevelsGiveSteps ==
  LevelsOnly =>
    LET tl == call.ret.timeline
        n == Len(tl)
        incs == [k \in 1..n |-> IncrementFor(tl[k].timestamp)]
    IN /\ n = Cardinality({i \in 1..Len(call.models.items) :
                             call.models.items[i].timestamp # Undefined})
       /\ call.ret.total.observations = n
       /\ \A k \in 1..n : tl[k].incremental_pnl = incs[k]
       /\ call.ret.total.pnl = FSum(incs)
       /\ call.ret.regimes[1].pnl = FSum([k \in 1..n |-> FMul(incs[k], tl[k].mean_revert)])
       /\ call.ret.regimes[2].pnl = FSum([k \in 1..n |-> FMul(incs[k], tl[k].breakout)])
       /\ n > 0 => /\ call.ret.regimes[1].time_share
                        = FDiv(FSum([k \in 1..n |-> tl[k].mean_revert]), F(n))
                   /\ call.ret.regimes[2].time_share
                        = FDiv(FSum([k \in 1..n |-> tl[k].breakout]), F(n))
\* levels 10 then 30: the sample at the second row gets 20, the other sample
\* has no row and gets 0, and both are counted
C35_Witness ==
  /\ LevelsOnly /\ Len(call.equity.rows) = 2 /\ Len(call.ret.timeline) = 2
  /\ call.equity.rows[1].equity = WholeText(10) /\ call.equity.rows[2].equity = WholeText(30)
  /\ call.equity.rows[1].timestamp = Ts("spaced", 1) /\ call.equity.rows[2].timestamp = Ts("iso", 2)
  /\ call.models.items[1].timestamp = Ts("iso", 1) /\ call.models.items[2].timestamp = Ts("iso", 2)
  /\ call.ret.timeline[1].incremental_pnl = F(0) /\ call.ret.timeline[2].incremental_pnl = F(20)
  /\ call.ret.total.pnl = F(20) /\ call.ret.total.observations = 2


\* the weight series has samples, so the result is not the degenerate one
HasSamples == RegimeDone /\ call.models.ok /\ call.models.array /\ call.models.items # <<>>
\* C36: every time_share and pnl_share is a number: time_share is the
\* regime's weight sum over the number of timeline samples, 0 with 0
\* observations when the timeline is empty; pnl_share is the regime's P&L
\* over total P&L, 0 for both regimes when total P&L is 0
C36_SharesNeverDivideByZero ==
  HasSamples =>
    LET tl == call.ret.timeline
        n == Len(tl)
        weightSum(r) == FSum([k \in 1..n |-> IF r = 1 THEN tl[k].mean_revert ELSE tl[k].breakout])
    IN /\ call.ret.total.observations = n
       /\ \A r \in 1..2 :
            /\ FIsFinite(call.ret.regimes[r].time_share)
            /\ FIsFinite(call.ret.regimes[r].pnl_share)
            /\ call.ret.regimes[r].time_share
                 = IF n = 0 THEN F(0) ELSE FDiv(weightSum(r), F(n))
            /\ call.ret.regimes[r].pnl_share
                 = IF call.ret.total.pnl = F(0) THEN F(0)
                   ELSE FDiv(call.ret.regimes[r].pnl, call.ret.total.pnl)
\* the only sample has no timestamp: the timeline is empty
C36_Witness ==
  /\ HasSamples /\ call.ret.timeline = <<>> /\ call.ret.total.observations = 0
  /\ call.ret.regimes[1].time_share = F(0) /\ call.ret.regimes[2].pnl_share = F(0)


\* C38: in every result that is not the degenerate one the two regimes' P&L
\* add up to total P&L, their time shares add up to 1 when the timeline has
\* a sample, their P&L shares add up to 1 when total P&L is not 0, and
\* observations is the length of the timeline
C38_RegimesPartitionTotals ==
  HasSamples =>
    LET mr == call.ret.regimes[1]
        bk == call.ret.regimes[2]
    IN /\ FAdd(mr.pnl, bk.pnl) = call.ret.total.pnl
       /\ Len(call.ret.timeline) >= 1 => FAdd(mr.time_share, bk.time_share) = F(1)
       /\ call.ret.total.pnl # F(0) => FAdd(mr.pnl_share, bk.pnl_share) = F(1)
       /\ call.ret.total.observations = Len(call.ret.timeline)
====
